---- MODULE Spec2Model ----
(***************************************************************************)
(* Model of the teatime Gitea client: the transport core of Client        *)
(* (request_base, make_request, parse_response, the From<reqwest::Error>  *)
(* conversion) and the endpoint builders (new, setters, send).            *)
(*                                                                         *)
(* Texts (paths, URLs, query values) are sequences of string tokens, so   *)
(* that format!() is concatenation and a doubled "/" is visible.          *)
(* A response body text is one of a few tokens whose JSON reading is      *)
(* given by from_str.                                                      *)
(***************************************************************************)
EXTENDS Integers, Sequences, FiniteSets, TLC

VARIABLES client, pc, builder, req, resp, mr, result, executed, tasks, trip

vars == <<client, pc, builder, req, resp, mr, result, executed, tasks, trip>>

(***************************************************************************)
(* Bounds                                                                  *)
(***************************************************************************)
\* at most this many optional fields are set on one builder
MaxSet == 2

(***************************************************************************)
(* Option<T>                                                               *)
(***************************************************************************)
None == [some |-> FALSE]
Some(x) == [some |-> TRUE, v |-> x]
IsSome(o) == o.some

(***************************************************************************)
(* Status codes (reqwest::StatusCode)                                      *)
(***************************************************************************)
NOT_FOUND == 404
BAD_REQUEST == 400
NO_CONTENT == 204

\* the statuses a server answers with in the model: one or two of each class
Statuses == {101, 200, NO_CONTENT, 304, BAD_REQUEST, NOT_FOUND, 500}

is_success(s) == s >= 200 /\ s < 300
is_client_error(s) == s >= 400 /\ s < 500
is_server_error(s) == s >= 500 /\ s < 600

(***************************************************************************)
(* A body text: empty, the text null, the JSON object of a model, a JSON   *)
(* array of such objects, or a text that is not JSON                       *)
(***************************************************************************)
Body(kind, model) == [kind |-> kind, model |-> model]
EmptyBody == Body("empty", "")
NullBody == Body("null", "")
Garbage == Body("garbage", "")
\* the JSON array of these items, and the JSON object {"ok": ok, "data": [items]}
ArrayOf(model, items) == [kind |-> "array", model |-> model, items |-> items]
Envelope(ok, model, data) ==
    [kind |-> "envelope", model |-> model, ok |-> ok, data |-> data]
\* the text of this JSON value
JsonText(j) == [kind |-> "json", model |-> "", json |-> j]

(***************************************************************************)
(* Error values (error.rs)                                                 *)
(***************************************************************************)
TeatimeError(message, kind, status_code) ==
    [message |-> message, kind |-> kind, status_code |-> status_code]

Ok(x) == [ok |-> TRUE, val |-> x]
Err(e) == [ok |-> FALSE, err |-> e]

\* a reqwest::Error: what failed, whether is_decode() holds, and the status
\* it carries (None unless it was made by error_for_status, which the
\* client never calls)
ReqwestError(what, decode) == [what |-> what, is_decode |-> decode, status |-> None]

\* an error message: a response body text taken verbatim, or a formatted
\* message (prefix and the Display of the underlying error)
Message(prefix, body, detail) == [prefix |-> prefix, body |-> body, detail |-> detail]

\* the conversion reporting 500 for an error without a status
FromReqwestError_internal(err) ==
    TeatimeError(Message("", EmptyBody, err.what),
                 IF err.is_decode THEN "SerializationError" ELSE "HttpError",
                 IF IsSome(err.status) THEN err.status.v ELSE 500)

\* impl From<reqwest::Error> for TeatimeError
FromReqwestError(err) ==
    TeatimeError(Message("", EmptyBody, err.what),
                 IF err.is_decode THEN "SerializationError" ELSE "HttpError",
                 IF IsSome(err.status) THEN err.status.v ELSE BAD_REQUEST)

(***************************************************************************)
(* Texts.  A text is a sequence of string tokens: words, and each of the   *)
(* characters / ? # = on its own.  The empty String is the empty text.     *)
(***************************************************************************)
Text(str) ==
    CASE str = ""      -> <<>>
      [] str = "a/b"   -> <<"a", "/", "b">>
      [] str = "b/c"   -> <<"b", "/", "c">>
      [] str = "a?x=1" -> <<"a", "?", "x", "=", "1">>
      [] str = "r#x"   -> <<"r", "#", "x">>
      [] OTHER         -> <<str>>

RECURSIVE Concat(_)
\* format!(): the pieces one after the other
Concat(pieces) ==
    IF pieces = <<>> THEN <<>> ELSE Head(pieces) \o Concat(Tail(pieces))

RECURSIVE join(_, _)
\* [String]::join(sep)
join(list, sep) ==
    IF list = <<>> THEN <<>>
    ELSE IF Len(list) = 1 THEN Text(list[1])
    ELSE Text(list[1]) \o <<sep>> \o join(Tail(list), sep)

(***************************************************************************)
(* Field values.  A struct field has a type name; the values a caller      *)
(* passes to a setter are drawn from small sets per type.                  *)
(***************************************************************************)
Values(ty) ==
    CASE ty = "i64"       -> {2, 10}
      [] ty = "i32"       -> {2}
      [] ty = "String"    -> {"", "x"}
      [] ty = "bool"      -> {TRUE, FALSE}
      [] ty = "State"     -> {"Closed"}
      [] ty = "IssueType" -> {"Pulls"}
      [] ty = "Sort"      -> {"RecentUpdate"}
      [] ty = "Vec<String>" -> {<<>>, <<"bug", "ui">>}
      [] ty = "Vec<i64>"  -> {<<7, 8>>}

\* impl Display (model/issues.rs) and ToString of the primitive types
to_string(ty, v) ==
    CASE ty \in {"i64", "i32"} -> <<ToString(v)>>
      [] ty = "String"    -> Text(v)
      [] ty = "bool"      -> IF v THEN <<"true">> ELSE <<"false">>
      [] ty = "State"     -> (CASE v = "Open" -> <<"open">>
                                [] v = "Closed" -> <<"closed">>
                                [] v = "All" -> <<"all">>)
      [] ty = "IssueType" -> (CASE v = "Issues" -> <<"issues">>
                                [] v = "Pulls" -> <<"pulls">>)

\* the serde name of a unit variant: #[serde(rename = ..)] on State and
\* IssueType, #[serde(rename_all = "lowercase")] on Sort
serde_variant(ty, v) ==
    CASE ty = "State"     -> (CASE v = "Open" -> "open"
                                [] v = "Closed" -> "closed"
                                [] v = "All" -> "all")
      [] ty = "IssueType" -> (CASE v = "Issues" -> "issues"
                                [] v = "Pulls" -> "pulls")
      [] ty = "Sort"      -> (CASE v = "Oldest" -> "oldest"
                                [] v = "RecentUpdate" -> "recentupdate")

IsSeqType(ty) == ty \in {"Vec<String>", "Vec<i64>"}
IsEnumType(ty) == ty \in {"State", "IssueType", "Sort"}

(***************************************************************************)
(* Struct fields with their attributes.                                    *)
(*   opt        the field is an Option<ty> (it has a setter)               *)
(*   serde_skip #[serde(skip)]                                             *)
(*   wire       the serde name (#[serde(rename = ..)] or the field name)   *)
(*   skip_none  #[serde(skip_serializing_if = "Option::is_none")]          *)
(*   qp_skip    #[query_params(skip)]                                      *)
(*   qp_name    #[query_params(rename = ..)] or the field name             *)
(***************************************************************************)
Field(name, ty, opt) ==
    [name |-> name, ty |-> ty, opt |-> opt, serde_skip |-> FALSE, wire |-> name,
     skip_none |-> FALSE, qp_skip |-> FALSE, qp_name |-> name]

\* an identifying parameter: #[serde(skip)], no setter
Ident(name, ty) == [Field(name, ty, FALSE) EXCEPT !.serde_skip = TRUE]
\* a required field that is serialized
Required(name, ty) == Field(name, ty, FALSE)
\* Option<ty>
Optional(name, ty) == Field(name, ty, TRUE)
\* Option<ty> with #[serde(skip_serializing_if = "Option::is_none")]
OptionalSkipNone(name, ty) == [Field(name, ty, TRUE) EXCEPT !.skip_none = TRUE]

(***************************************************************************)
(* The builder structs, fields in declaration order.                       *)
(***************************************************************************)
\* api/orgs/members.rs
IsMemberBuilder == <<Required("org", "String"), Required("username", "String")>>

\* api/orgs/public_members.rs
IsPublicMemberBuilder == <<Required("org", "String"), Required("username", "String")>>

\* api/user/starred.rs
IsStarredBuilder == <<Required("owner", "String"), Required("repo", "String")>>

\* api/user/get.rs
GetUserBuilder == <<Required("username", "String")>>

\* api/repos/delete.rs
DeleteRepoBuilder == <<Required("owner", "String"), Required("repo", "String")>>

\* api/issues/comments/edit.rs
EditCommentBuilder ==
    <<Ident("owner", "String"), Ident("repo", "String"), Ident("comment", "i64"),
      Required("body", "String"), Optional("updated_at", "String")>>

\* api/issues/comments/create.rs
CreateCommentBuilder ==
    <<Ident("owner", "String"), Ident("repo", "String"), Ident("issue", "i64"),
      Required("body", "String"), Optional("updated_at", "String")>>

\* api/repos/edit.rs; of its 31 optional fields, all declared alike (Option
\* of bool or String, no serde attribute), these six are modelled
EditRepoBuilder ==
    <<Ident("owner", "String"), Ident("repo", "String"),
      Optional("archived", "bool"), Optional("default_branch", "String"),
      Optional("description", "String"), Optional("name", "String"),
      Optional("private", "bool"), Optional("website", "String")>>

\* api/issues/create.rs; title carries only the builder's #[skip]
CreateIssueBuilder ==
    <<Ident("owner", "String"), Ident("repo", "String"), Required("title", "String"),
      OptionalSkipNone("assignees", "Vec<String>"), OptionalSkipNone("body", "String"),
      OptionalSkipNone("closed", "bool"), OptionalSkipNone("due_date", "String"),
      OptionalSkipNone("labels", "Vec<i64>"), OptionalSkipNone("milestone", "i64"),
      OptionalSkipNone("ref", "String")>>

\* api/issues/edit.rs; the setter of r#ref is named refs
EditIssueBuilder ==
    <<Ident("owner", "String"), Ident("repo", "String"), Ident("issue_number", "i64"),
      OptionalSkipNone("assignees", "Vec<String>"), OptionalSkipNone("body", "String"),
      OptionalSkipNone("due_date", "String"), OptionalSkipNone("milestone", "i64"),
      OptionalSkipNone("ref", "String"), OptionalSkipNone("title", "String"),
      OptionalSkipNone("unset_due_date", "bool"),
      OptionalSkipNone("updated_at", "String")>>

\* api/user/list_repos.rs
ListReposBuilder == <<Optional("page", "i64"), Optional("limit", "i64")>>

\* api/repos/get.rs
GetRepoBuilder == <<Required("owner", "String"), Required("repo", "String")>>

\* api/avatar/repo.rs: #[skip] is the builder's attribute, the struct
\* derives Serialize and no field carries #[serde(skip)]
UpdateRepoAvatarBuilder ==
    <<Required("owner", "String"), Required("repo", "String"),
      Required("image", "String")>>

\* api/avatar/org.rs
UpdateOrgAvatarBuilder == <<Required("name", "String"), Required("image", "String")>>

\* api/user/tokens.rs
ListAccessTokensBuilder ==
    <<[Field("username", "String", FALSE) EXCEPT !.qp_skip = TRUE],
      Optional("page", "i64"), Optional("limit", "i64")>>

\* api/issues/list.rs
ListIssuesBuilder ==
    <<Ident("owner", "String"), Ident("repo", "String"),
      Optional("state", "State"), Optional("labels", "Vec<String>"),
      [Optional("query", "String") EXCEPT !.wire = "q"],
      [Optional("issue_type", "IssueType") EXCEPT !.wire = "type"],
      Optional("milestone", "String"), Optional("since", "String"),
      Optional("before", "String"), Optional("created_by", "String"),
      Optional("assigned_by", "String"), Optional("mentioned_by", "String"),
      Optional("page", "i64"), Optional("limit", "i64")>>

\* api/search/issues.rs
SearchIssuesBuilder ==
    <<Optional("state", "State"),
      [Optional("labels", "Vec<String>") EXCEPT !.qp_skip = TRUE],
      [Optional("milestones", "Vec<String>") EXCEPT !.qp_skip = TRUE],
      [Optional("query", "String") EXCEPT !.qp_name = "q"],
      Optional("priority_repo_id", "i64"),
      [Optional("issue_type", "IssueType") EXCEPT !.qp_name = "type"],
      Optional("since", "String"), Optional("before", "String"),
      Optional("assigned", "bool"), Optional("created", "bool"),
      Optional("mentioned", "bool"), Optional("review_requested", "bool"),
      Optional("reviewed", "bool"), Optional("owner", "String"),
      Optional("team", "String"), Optional("page", "i64"), Optional("limit", "i64")>>

\* api/pulls/list.rs
ListPullRequestsBuilder ==
    <<Ident("owner", "String"), Ident("repo", "String"),
      Optional("state", "State"), Optional("sort", "Sort"),
      Optional("milestone", "i64"), Optional("labels", "Vec<i64>"),
      Optional("page", "i64"), Optional("limit", "i64")>>

\* api/orgs/members.rs
ListMembersBuilder ==
    <<Ident("org", "String"), Optional("page", "i64"), Optional("limit", "i64")>>

\* api/orgs/members.rs
RemoveMemberBuilder == <<Required("org", "String"), Required("username", "String")>>

\* api/search/users.rs
SearchUsersBuilder ==
    <<[Optional("query", "String") EXCEPT !.wire = "q"], Optional("uid", "i64"),
      Optional("page", "i32"), Optional("limit", "i32")>>

\* api/search/repos.rs; of its 17 optional fields, each appended by hand
\* under its own name (starred_by under starredBy), these six are modelled
SearchRepositoriesBuilder ==
    <<Optional("q", "String"), Optional("topic", "bool"),
      [Optional("starred_by", "i64") EXCEPT !.wire = "starredBy"],
      Optional("mode", "String"), Optional("page", "i32"), Optional("limit", "i32")>>

\* api/issues/delete.rs
DeleteIssueBuilder ==
    <<Required("owner", "String"), Required("repo", "String"),
      Required("issue_number", "i64")>>

\* api/issues/comments/delete.rs
DeleteCommentBuilder ==
    <<Required("owner", "String"), Required("repo", "String"), Required("comment", "i64")>>

\* api/repos/branches.rs
DeleteBranchBuilder ==
    <<Required("owner", "String"), Required("repo", "String"), Required("branch", "String")>>

\* api/orgs/delete.rs
DeleteOrgBuilder == <<Required("name", "String")>>

\* api/user/tokens.rs
DeleteAccessTokenBuilder == <<Required("user", "String"), Required("token", "String")>>

Kinds ==
    {"IsMemberBuilder", "IsPublicMemberBuilder", "IsStarredBuilder", "GetUserBuilder",
     "DeleteRepoBuilder", "EditCommentBuilder", "CreateCommentBuilder",
     "EditRepoBuilder", "CreateIssueBuilder", "ListReposBuilder", "ListIssuesBuilder",
     "SearchIssuesBuilder", "ListPullRequestsBuilder", "ListMembersBuilder",
     "RemoveMemberBuilder", "SearchUsersBuilder", "SearchRepositoriesBuilder",
     "DeleteIssueBuilder", "DeleteCommentBuilder", "DeleteBranchBuilder",
     "DeleteOrgBuilder", "DeleteAccessTokenBuilder"}

\* the builders whose send returns Result<()> after a DELETE
DeleteStyle ==
    {"DeleteRepoBuilder", "DeleteIssueBuilder", "DeleteCommentBuilder",
     "DeleteBranchBuilder", "DeleteOrgBuilder", "DeleteAccessTokenBuilder",
     "RemoveMemberBuilder"}

ExistenceChecks == {"IsMemberBuilder", "IsPublicMemberBuilder", "IsStarredBuilder"}

Fields(kind) ==
    CASE kind = "IsMemberBuilder"         -> IsMemberBuilder
      [] kind = "IsPublicMemberBuilder"   -> IsPublicMemberBuilder
      [] kind = "IsStarredBuilder"        -> IsStarredBuilder
      [] kind = "GetUserBuilder"          -> GetUserBuilder
      [] kind = "DeleteRepoBuilder"       -> DeleteRepoBuilder
      [] kind = "EditCommentBuilder"      -> EditCommentBuilder
      [] kind = "CreateCommentBuilder"    -> CreateCommentBuilder
      [] kind = "EditRepoBuilder"         -> EditRepoBuilder
      [] kind = "CreateIssueBuilder"      -> CreateIssueBuilder
      [] kind = "ListReposBuilder"        -> ListReposBuilder
      [] kind = "ListIssuesBuilder"       -> ListIssuesBuilder
      [] kind = "SearchIssuesBuilder"     -> SearchIssuesBuilder
      [] kind = "ListPullRequestsBuilder" -> ListPullRequestsBuilder
      [] kind = "ListMembersBuilder"      -> ListMembersBuilder
      [] kind = "RemoveMemberBuilder"     -> RemoveMemberBuilder
      [] kind = "SearchUsersBuilder"      -> SearchUsersBuilder
      [] kind = "SearchRepositoriesBuilder" -> SearchRepositoriesBuilder
      [] kind = "DeleteIssueBuilder"      -> DeleteIssueBuilder
      [] kind = "DeleteCommentBuilder"    -> DeleteCommentBuilder
      [] kind = "DeleteBranchBuilder"     -> DeleteBranchBuilder
      [] kind = "DeleteOrgBuilder"        -> DeleteOrgBuilder
      [] kind = "DeleteAccessTokenBuilder" -> DeleteAccessTokenBuilder
      [] kind = "ListAccessTokensBuilder" -> ListAccessTokensBuilder
      [] kind = "GetRepoBuilder"          -> GetRepoBuilder
      [] kind = "EditIssueBuilder"        -> EditIssueBuilder
      [] kind = "UpdateRepoAvatarBuilder" -> UpdateRepoAvatarBuilder
      [] kind = "UpdateOrgAvatarBuilder"  -> UpdateOrgAvatarBuilder

FieldIndex(kind) == 1..Len(Fields(kind))
FieldNames(kind) == {Fields(kind)[i].name : i \in FieldIndex(kind)}
FieldOf(kind, name) ==
    Fields(kind)[CHOOSE i \in FieldIndex(kind) : Fields(kind)[i].name = name]
OptionalNames(kind) ==
    {Fields(kind)[i].name : i \in {j \in FieldIndex(kind) : Fields(kind)[j].opt}}
RequiredNames(kind) ==
    {Fields(kind)[i].name : i \in {j \in FieldIndex(kind) : ~Fields(kind)[j].opt}}

\* the arguments a caller passes to new()
Args(name) ==
    CASE name = "owner"    -> {"acme"}
      [] name = "repo"     -> {"widgets"}
      [] name = "org"      -> {"acme"}
      [] name = "username" -> {"bob"}
      [] name = "comment"  -> {3}
      [] name = "issue"    -> {5}
      [] name = "body"     -> {"hello"}
      [] name = "title"    -> {"bug"}
      [] name = "issue_number" -> {5}
      [] name = "branch"   -> {"main"}
      [] name = "name"     -> {"acme"}
      [] name = "user"     -> {"bob"}
      [] name = "token"    -> {"ci"}
      [] name = "image"    -> {"aW1n"}

\* XBuilder::new(..): the arguments stored, every Option field None
new(kind, args) ==
    [kind |-> kind,
     f |-> [n \in FieldNames(kind) |-> IF n \in DOMAIN args THEN args[n] ELSE None]]

\* a setter that resets the other optional fields: self = Self::new(..) first
setter_clearing_others(b, name, value) ==
    [b EXCEPT !.f = [n \in DOMAIN @ |->
                        IF n = name THEN Some(value)
                        ELSE IF n \in OptionalNames(b.kind) THEN None ELSE @[n]]]

\* the generated setter: self.name = Some(value)
setter(b, name, value) == [b EXCEPT !.f[name] = Some(value)]

SetNames(b) == {n \in OptionalNames(b.kind) : IsSome(b.f[n])}

(***************************************************************************)
(* Serialization of a builder: serde_json (.json), serde_urlencoded        *)
(* (.query) and the derived append_query_params.                           *)
(***************************************************************************)
JNull == [null |-> TRUE]
JVal(ty, v) == [null |-> FALSE, ty |-> ty, v |-> v]

Present(fd, b) == ~fd.opt \/ IsSome(b.f[fd.name])
ValueOf(fd, b) == IF fd.opt THEN b.f[fd.name].v ELSE b.f[fd.name]

RECURSIVE to_json_nulls(_, _)
\* to_json without skip_serializing_if: every None is written as null
to_json_nulls(fs, b) ==
    IF fs = <<>> THEN <<>>
    ELSE LET fd == Head(fs)
             entry == IF fd.serde_skip THEN <<>>
                      ELSE IF ~Present(fd, b) THEN << <<fd.wire, JNull>> >>
                           ELSE << <<fd.wire, JVal(fd.ty, ValueOf(fd, b))>> >>
         IN entry \o to_json_nulls(Tail(fs), b)

RECURSIVE to_json_empty_as_null(_, _)
\* to_json writing an empty String like None
to_json_empty_as_null(fs, b) ==
    IF fs = <<>> THEN <<>>
    ELSE LET fd == Head(fs)
             empty == fd.ty = "String" /\ Present(fd, b) /\ ValueOf(fd, b) = ""
             entry == IF fd.serde_skip THEN <<>>
                      ELSE IF ~Present(fd, b) \/ empty
                           THEN (IF fd.skip_none THEN <<>> ELSE << <<fd.wire, JNull>> >>)
                           ELSE << <<fd.wire, JVal(fd.ty, ValueOf(fd, b))>> >>
         IN entry \o to_json_empty_as_null(Tail(fs), b)

RECURSIVE to_json(_, _)
\* #[derive(Serialize)] driven by serde_json: one key per field that is not
\* skipped, None written as null
to_json(fs, b) ==
    IF fs = <<>> THEN <<>>
    ELSE LET fd == Head(fs)
             entry == IF fd.serde_skip THEN <<>>
                      ELSE IF ~Present(fd, b)
                           THEN (IF fd.skip_none THEN <<>> ELSE << <<fd.wire, JNull>> >>)
                           ELSE << <<fd.wire, JVal(fd.ty, ValueOf(fd, b))>> >>
         IN entry \o to_json(Tail(fs), b)

\* the text serde_urlencoded writes for a scalar value
urlencoded_value(ty, v) ==
    CASE ty \in {"i64", "i32"} -> <<ToString(v)>>
      [] ty = "String"   -> Text(v)
      [] ty = "bool"     -> IF v THEN <<"true">> ELSE <<"false">>
      [] IsEnumType(ty)  -> <<serde_variant(ty, v)>>

RECURSIVE urlencoded_pairs(_, _)
urlencoded_pairs(fs, b) ==
    IF fs = <<>> THEN <<>>
    ELSE LET fd == Head(fs)
             entry == IF fd.serde_skip \/ ~Present(fd, b) \/ IsSeqType(fd.ty) THEN <<>>
                      ELSE << <<fd.wire, urlencoded_value(fd.ty, ValueOf(fd, b))>> >>
         IN entry \o urlencoded_pairs(Tail(fs), b)

\* #[derive(Serialize)] driven by serde_urlencoded: None is left out, a
\* sequence value is Error::Custom("unsupported value")
to_urlencoded(fs, b) ==
    IF \E i \in 1..Len(fs) :
          ~fs[i].serde_skip /\ Present(fs[i], b) /\ IsSeqType(fs[i].ty)
    THEN Err("unsupported value")
    ELSE Ok(urlencoded_pairs(fs, b))

RECURSIVE append_query_params_field_names(_, _)
\* append_query_params ignoring #[query_params(rename = ..)]
append_query_params_field_names(fs, b) ==
    IF fs = <<>> THEN <<>>
    ELSE LET fd == Head(fs)
             entry == IF fd.qp_skip THEN <<>>
                      ELSE IF IsSome(b.f[fd.name])
                           THEN << <<fd.name, to_string(fd.ty, b.f[fd.name].v)>> >>
                           ELSE <<>>
         IN entry \o append_query_params_field_names(Tail(fs), b)

RECURSIVE append_query_params(_, _)
\* #[derive(QueryParams)]: the pairs appended, in field order
append_query_params(fs, b) ==
    IF fs = <<>> THEN <<>>
    ELSE LET fd == Head(fs)
             entry == IF fd.qp_skip THEN <<>>
                      ELSE IF IsSome(b.f[fd.name])
                           THEN << <<fd.qp_name, to_string(fd.ty, b.f[fd.name].v)>> >>
                           ELSE <<>>
         IN entry \o append_query_params(Tail(fs), b)

(***************************************************************************)
(* The client (lib.rs).  Credentials and header values are byte strings:   *)
(* sequences of the ASCII codes of their characters.                       *)
(***************************************************************************)
\* enum Auth
AuthToken(token) == [variant |-> "Token", token |-> token]
AuthBasic(user, pass) == [variant |-> "Basic", user |-> user, pass |-> pass]
AuthNone == [variant |-> "None"]

\* alphabet::STANDARD: A-Z, a-z, 0-9, '+', '/'
alphabet(i) ==
    IF i < 26 THEN 65 + i
    ELSE IF i < 52 THEN 97 + (i - 26)
    ELSE IF i < 62 THEN 48 + (i - 52)
    ELSE IF i = 62 THEN 43 ELSE 47

RECURSIVE encode(_)
\* GeneralPurpose::encode with GeneralPurposeConfig::new(): three bytes
\* become four characters, the last group is padded with '='
encode(bytes) ==
    IF Len(bytes) = 0 THEN <<>>
    ELSE IF Len(bytes) = 1
         THEN <<alphabet(bytes[1] \div 4), alphabet((bytes[1] % 4) * 16), 61, 61>>
    ELSE IF Len(bytes) = 2
         THEN <<alphabet(bytes[1] \div 4),
                alphabet((bytes[1] % 4) * 16 + bytes[2] \div 16),
                alphabet((bytes[2] % 16) * 4), 61>>
    ELSE <<alphabet(bytes[1] \div 4),
           alphabet((bytes[1] % 4) * 16 + bytes[2] \div 16),
           alphabet((bytes[2] % 16) * 4 + bytes[3] \div 64),
           alphabet(bytes[3] % 64)>> \o encode(SubSeq(bytes, 4, Len(bytes)))

\* HeaderValue::from_str: only visible ASCII, space and tab are accepted
HeaderValue_from_str(bytes) ==
    IF \A i \in 1..Len(bytes) : bytes[i] = 9 \/ (bytes[i] >= 32 /\ bytes[i] < 127)
    THEN Ok(bytes) ELSE Err("invalid header value")

\* the texts "token ", "Basic ", ":", "application/json", "teatime/0.0.1"
token_prefix == <<116, 111, 107, 101, 110, 32>>
basic_prefix == <<66, 97, 115, 105, 99, 32>>
colon == <<58>>
application_json ==
    <<97, 112, 112, 108, 105, 99, 97, 116, 105, 111, 110, 47, 106, 115, 111, 110>>
user_agent == <<116, 101, 97, 116, 105, 109, 101, 47, 48, 46, 48, 46, 49>>

Panic(msg) == [ok |-> FALSE, panic |-> msg]

\* Client::new: the default headers are built once; .expect() panics when
\* the credentials do not make a header value
Client_new(base_url, auth) ==
    LET authorization ==
            CASE auth.variant = "Token" ->
                   HeaderValue_from_str(token_prefix \o auth.token)
              [] auth.variant = "Basic" ->
                   HeaderValue_from_str(
                       basic_prefix \o encode(auth.user \o colon \o auth.pass))
              [] auth.variant = "None" -> Ok(<<>>)
        rest == ("accept" :> application_json) @@ ("user-agent" :> user_agent)
    IN IF ~authorization.ok
       THEN Panic(IF auth.variant = "Token" THEN "token error" ELSE "basic auth error")
       ELSE Ok([base_url |-> base_url,
                headers  |-> IF auth.variant = "None" THEN rest
                             ELSE ("authorization" :> authorization.val) @@ rest])

(***************************************************************************)
(* Requests (reqwest::RequestBuilder is a Result<Request>)                 *)
(***************************************************************************)

\* Client::request_base
request_base(c, method, path) ==
    Ok([method |-> method,
        url    |-> Concat(<<Text(c.base_url), <<"/", "api", "/", "v1", "/">>, path>>),
        query  |-> None,
        body   |-> None])

get(c, path) == request_base(c, "GET", path)
post(c, path) == request_base(c, "POST", path)
delete(c, path) == request_base(c, "DELETE", path)
patch(c, path) == request_base(c, "PATCH", path)

\* RequestBuilder::json
json(rb, fs, b) ==
    IF rb.ok THEN Ok([rb.val EXCEPT !.body = Some(to_json(fs, b))]) ELSE rb

\* RequestBuilder::query: a serializer error becomes a builder error, an
\* empty query is removed again
query(rb, fs, b) ==
    IF ~rb.ok THEN rb
    ELSE LET ser == to_urlencoded(fs, b)
         IN IF ~ser.ok THEN Err(ReqwestError("builder error", FALSE))
            ELSE Ok([rb.val EXCEPT !.query = IF ser.val = <<>> THEN None ELSE Some(ser.val)])

\* the query replaced by the last pair instead of extended
set_last_pair(r, pairs) ==
    [r EXCEPT !.query = Some(IF pairs = <<>> THEN <<>> ELSE <<pairs[Len(pairs)]>>)]

\* req.url_mut().query_pairs_mut() followed by append_pair for each pair
append_pairs(r, pairs) ==
    [r EXCEPT !.query = Some((IF IsSome(@) THEN @.v ELSE <<>>) \o pairs)]

\* execute sending the request without the client's default headers
execute_without_default_headers(c, r) ==
    [method |-> r.method, url |-> r.url, query |-> r.query, body |-> r.body,
     headers |-> <<>>]

\* self.cli.execute(req): the request as it goes on the wire, with the
\* client's default headers (no builder sets one of them itself)
execute(c, r) ==
    [method |-> r.method, url |-> r.url, query |-> r.query, body |-> r.body,
     headers |-> c.headers]

QueryPairs(r) == IF IsSome(r.query) THEN r.query.v ELSE <<>>
QueryKeys(r) == {QueryPairs(r)[i][1] : i \in 1..Len(QueryPairs(r))}
BodyPairs(r) == IF IsSome(r.body) THEN r.body.v ELSE <<>>
BodyKeys(r) == {BodyPairs(r)[i][1] : i \in 1..Len(BodyPairs(r))}

(***************************************************************************)
(* The response models (model/*.rs) under serde_json.  A JSON value is     *)
(* null, a number, a string, a boolean, an array or an object (a function  *)
(* from its keys to JSON values).                                          *)
(***************************************************************************)
JsonNull == [t |-> "null"]
JsonNumber(n) == [t |-> "number", n |-> n]
JsonString(s) == [t |-> "string", s |-> s]
JsonBool(b) == [t |-> "bool", b |-> b]
JsonArray(items) == [t |-> "array", items |-> items]
JsonObject(doc) == [t |-> "object", doc |-> doc]

\* a field of a model: its name, its type and its serde name
ModelField(name, ty) == [name |-> name, ty |-> ty, wire |-> name]

\* the fields of the model structs, in declaration order
ModelFields(model) ==
    CASE model = "AccessToken" ->
           <<ModelField("id", "i64"), ModelField("name", "String"),
             ModelField("scopes", "Option<Vec<String>>"), ModelField("sha1", "String")>>
      [] model = "User" ->
           <<ModelField("active", "bool"), ModelField("id", "i64"),
             ModelField("login", "String")>>
      [] model = "Organization" ->
           <<ModelField("id", "i64"), ModelField("name", "String"),
             ModelField("visibility", "Visibility"),
             ModelField("description", "Option<String>")>>
      [] model = "Comment" ->
           <<ModelField("body", "String"), ModelField("id", "i64"),
             ModelField("user", "User")>>
      [] model = "Issue" ->
           <<ModelField("body", "Option<String>"), ModelField("id", "i64"),
             ModelField("state", "StateType"), ModelField("user", "User")>>
      [] model = "ExternalWiki" ->
           <<ModelField("external_wiki_url", "String")>>
      [] model = "Repository" ->
           <<ModelField("external_wiki", "ExternalWiki"), ModelField("id", "i64"),
             ModelField("object_format_name", "ObjectFormatName"),
             ModelField("owner", "User")>>
      \* the Issue of issue.rs and the Repository of repo.rs, which the legacy
      \* methods of Client return
      [] model = "issue::Issue" ->
           <<ModelField("body", "Option<String>"), ModelField("id", "i64"),
             ModelField("state", "State"), ModelField("user", "User")>>
      [] model = "repo::Repository" ->
           <<ModelField("id", "i64"),
             ModelField("object_format_name", "ObjectFormatName"),
             ModelField("owner", "User")>>

Models ==
    {"AccessToken", "User", "Organization", "Comment", "Issue", "ExternalWiki",
     "Repository"}

LegacyModels == {"issue::Issue", "repo::Repository"}
Structs == Models \cup LegacyModels

\* the structs that carry #[serde(default)]
HasSerdeDefault(model) ==
    model \in {"User", "Issue", "ExternalWiki", "Repository"} \cup LegacyModels

ModelEnums == {"StateType", "Visibility", "ObjectFormatName", "State"}
IsOptionType(ty) == ty \in {"Option<String>", "Option<Vec<String>>"}
IsVecType(ty) == ty \in {"Vec<String>"}
\* the T of Option<T> and of Vec<T>
Inner(ty) ==
    CASE ty = "Option<String>"      -> "String"
      [] ty = "Option<Vec<String>>" -> "Vec<String>"
      [] ty = "Vec<String>"         -> "String"

\* the variants of the model enums
Variants(ty) ==
    CASE ty = "StateType"        -> {"Open", "Closed"}
      [] ty = "Visibility"       -> {"Public", "Limited", "Private"}
      [] ty = "ObjectFormatName" -> {"SHA1", "SHA256"}
      [] ty = "State"            -> {"Open", "Closed", "All"}

\* a unit variant written under its Rust identifier
variant_ident(ty, v) == v

\* Serialize of a model enum: the name given by #[serde(rename = ..)] or by
\* #[serde(rename_all = "lowercase")]
variant_name(ty, v) ==
    CASE ty = "StateType"  -> (CASE v = "Open" -> "open" [] v = "Closed" -> "closed")
      [] ty = "Visibility" -> (CASE v = "Public" -> "public"
                                 [] v = "Limited" -> "limited"
                                 [] v = "Private" -> "private")
      [] ty = "ObjectFormatName" -> (CASE v = "SHA1" -> "sha1" [] v = "SHA256" -> "sha256")
      [] ty = "State" -> serde_variant(ty, v)

\* Deserialize of a model enum: the variant a string names, if any
variant_of(ty, s) ==
    CASE ty = "StateType" ->
           (CASE s = "open" -> Some("Open") [] s = "closed" -> Some("Closed")
              [] OTHER -> None)
      [] ty = "Visibility" ->
           (CASE s = "public" -> Some("Public") [] s = "limited" -> Some("Limited")
              [] s = "private" -> Some("Private") [] OTHER -> None)
      [] ty = "ObjectFormatName" ->
           (CASE s = "sha1" -> Some("SHA1") [] s = "sha256" -> Some("SHA256")
              [] OTHER -> None)
      [] ty = "State" ->
           (CASE s = "open" -> Some("Open") [] s = "closed" -> Some("Closed")
              [] s = "all" -> Some("All") [] OTHER -> None)

\* a value of a model struct
Struct(model, f) == [model |-> model, f |-> f]

RECURSIVE default(_)
\* Default::default(): #[derive(Default)] and the #[default] variant
default(ty) ==
    CASE ty = "i64"             -> 0
      [] ty = "String"          -> ""
      [] ty = "bool"            -> FALSE
      [] IsOptionType(ty)       -> None
      [] IsVecType(ty)          -> <<>>
      [] ty = "StateType"       -> "Open"
      [] ty = "ObjectFormatName" -> "SHA1"
      [] ty = "State"           -> "All"
      [] ty \in Structs ->
           Struct(ty, [n \in {ModelFields(ty)[i].name : i \in 1..Len(ModelFields(ty))} |->
                          default((CHOOSE fd \in {ModelFields(ty)[i] : i \in 1..Len(ModelFields(ty))} :
                                      fd.name = n).ty)])

\* Some of a value that was read, an error as it is
some_of(inner) == IF inner.ok THEN Ok(Some(inner.val)) ELSE inner

\* a Vec of items each read by itself: one item in error fails the Vec
collect(items) ==
    IF \E i \in 1..Len(items) : ~items[i].ok THEN Err("invalid type")
    ELSE Ok([i \in 1..Len(items) |-> items[i].val])

\* a struct of fields each read by itself: one field in error fails the struct
collect_fields(ty, field) ==
    IF \E fd \in DOMAIN field : ~field[fd].ok
    THEN Err((CHOOSE fd \in DOMAIN field : ~field[fd].ok).name)
    ELSE Ok(Struct(ty, [n \in {fd.name : fd \in DOMAIN field} |->
                           field[CHOOSE fd \in DOMAIN field : fd.name = n].val]))

\* the field of a struct whose key the JSON object does not have
missing(ty, fd) ==
    IF HasSerdeDefault(ty) THEN Ok(default(fd.ty))
    ELSE IF IsOptionType(fd.ty) THEN Ok(None) ELSE Err("missing field")

RECURSIVE deserialize(_, _)
\* #[derive(Deserialize)] driven by serde_json: keys the struct does not
\* declare are ignored; a missing key is the field's default under
\* #[serde(default)], None for an Option and an error otherwise
deserialize(ty, j) ==
    CASE ty = "i64"    -> IF j.t = "number" THEN Ok(j.n) ELSE Err("invalid type")
      [] ty = "String" -> IF j.t = "string" THEN Ok(j.s) ELSE Err("invalid type")
      [] ty = "bool"   -> IF j.t = "bool" THEN Ok(j.b) ELSE Err("invalid type")
      [] IsOptionType(ty) ->
           IF j.t = "null" THEN Ok(None) ELSE some_of(deserialize(Inner(ty), j))
      [] IsVecType(ty) ->
           IF j.t # "array" THEN Err("invalid type")
           ELSE collect([i \in 1..Len(j.items) |-> deserialize(Inner(ty), j.items[i])])
      [] ty \in ModelEnums ->
           IF j.t # "string" THEN Err("invalid type")
           ELSE IF IsSome(variant_of(ty, j.s)) THEN Ok(variant_of(ty, j.s).v)
                ELSE Err("unknown variant")
      [] ty \in Structs ->
           IF j.t # "object" THEN Err("invalid type")
           ELSE collect_fields(ty,
                   [fd \in {ModelFields(ty)[i] : i \in 1..Len(ModelFields(ty))} |->
                       IF fd.wire \in DOMAIN j.doc THEN deserialize(fd.ty, j.doc[fd.wire])
                       ELSE missing(ty, fd)])

RECURSIVE serialize(_, _)
\* #[derive(Serialize)] driven by serde_json: every field under its serde
\* name, None as null
serialize(ty, v) ==
    CASE ty = "i64"    -> JsonNumber(v)
      [] ty = "String" -> JsonString(v)
      [] ty = "bool"   -> JsonBool(v)
      [] IsOptionType(ty) -> IF IsSome(v) THEN serialize(Inner(ty), v.v) ELSE JsonNull
      [] IsVecType(ty) -> JsonArray([i \in 1..Len(v) |-> serialize(Inner(ty), v[i])])
      [] ty \in ModelEnums -> JsonString(variant_name(ty, v))
      [] ty \in Structs ->
           LET fds == {ModelFields(ty)[i] : i \in 1..Len(ModelFields(ty))}
           IN JsonObject([k \in {fd.wire : fd \in fds} |->
                             LET fd == CHOOSE x \in fds : x.wire = k
                             IN serialize(fd.ty, v.f[fd.name])])

(***************************************************************************)
(* Responses and the JSON reading of a body text                           *)
(***************************************************************************)

\* what Client::execute yields: a response (its body may fail to arrive
\* when it is read) or a reqwest::Error without a response
Response(status, body, readable, decode) ==
    [delivered |-> TRUE, status |-> status, body |-> body, readable |-> readable,
     decode |-> decode, what |-> ""]
NoResponse(what) ==
    [delivered |-> FALSE, status |-> 0, body |-> EmptyBody, readable |-> FALSE,
     decode |-> FALSE, what |-> what]

\* Response::text
text(res) ==
    IF res.readable THEN Ok(res.body)
    ELSE Err(ReqwestError("error reading response body", res.decode))

\* a deserialized value: None, Some(x), x, and the results that carry no
\* body: true, false, ()
Val(variant, doc) == [variant |-> variant, doc |-> doc]
Unit == Val("Unit", EmptyBody)
True == Val("True", EmptyBody)
False == Val("False", EmptyBody)

Type(shape, model) == [shape |-> shape, model |-> model]

\* the message of the serde_json error for a text that is not a T
de_message(txt) ==
    CASE txt.kind = "empty"   -> "EOF while parsing a value"
      [] txt.kind = "garbage" -> "expected value"
      [] OTHER                -> "invalid type"

\* Deserialize of Vec<Model>
deserialize_vec(model, j) ==
    IF j.t # "array" THEN Err("invalid type")
    ELSE collect([i \in 1..Len(j.items) |-> deserialize(model, j.items[i])])

\* the value send returns for what was read
as_val(variant, v) == IF v.ok THEN Ok(Val(variant, v.val)) ELSE v
as_array(model, v) == IF v.ok THEN Ok(Val("Plain", ArrayOf(model, v.val))) ELSE v
as_response(model, ok, v) ==
    IF v.ok THEN Ok(Val("Response", [model |-> model, ok |-> ok, data |-> v.val])) ELSE v

\* serde_json::from_str::<T> of the text of a JSON value; the struct
\* Response { ok: bool, data: Vec<Repository> } needs both of its keys
from_json(T, j) ==
    CASE T.shape = "struct" -> as_val("Plain", deserialize(T.model, j))
      [] T.shape = "option" ->
           IF j.t = "null" THEN Ok(Val("None", EmptyBody))
           ELSE as_val("Some", deserialize(T.model, j))
      [] T.shape = "vec" -> as_array(T.model, deserialize_vec(T.model, j))
      [] T.shape = "envelope" ->
           IF j.t # "object" THEN Err("invalid type")
           ELSE IF ~{"ok", "data"} \subseteq DOMAIN j.doc THEN Err("missing field")
                ELSE IF j.doc["ok"].t # "bool" THEN Err("invalid type")
                     ELSE as_response(T.model, j.doc["ok"].b,
                                      deserialize_vec(T.model, j.doc["data"]))

\* serde_json::from_str::<T>: a struct reads a JSON object of its model, a
\* Vec a JSON array, an Option reads null as None and otherwise its inner
\* type; the empty text is an error for each of them
from_str(T, txt) ==
    CASE txt.kind = "json" -> from_json(T, txt.json)
      [] T.shape = "struct" ->
           IF txt.kind = "object" /\ txt.model = T.model
           THEN Ok(Val("Plain", txt)) ELSE Err(de_message(txt))
      [] T.shape = "vec" ->
           IF txt.kind = "array" /\ txt.model = T.model
           THEN Ok(Val("Plain", txt)) ELSE Err(de_message(txt))
      [] T.shape = "option" ->
           IF txt.kind = "null" THEN Ok(Val("None", txt))
           ELSE IF txt.kind = "object" /\ txt.model = T.model
                THEN Ok(Val("Some", txt)) ELSE Err(de_message(txt))
      [] T.shape = "envelope" ->
           IF txt.kind = "envelope" /\ txt.model = T.model
           THEN Ok(Val("Response", txt)) ELSE Err(de_message(txt))

(***************************************************************************)
(* Transport core                                                          *)
(***************************************************************************)
\* make_request testing only is_client_error()
make_request_client_only(c, r, net) ==
    IF ~net.delivered THEN Err(FromReqwestError(ReqwestError(net.what, FALSE)))
    ELSE IF is_client_error(net.status)
         THEN Err(TeatimeError(
                     Message("", (IF text(net).ok THEN text(net).val ELSE EmptyBody), ""),
                     "HttpError", net.status))
         ELSE Ok(net)

\* make_request reporting every error response as a 500
make_request_internal_error(c, r, net) ==
    IF ~net.delivered THEN Err(FromReqwestError(ReqwestError(net.what, FALSE)))
    ELSE IF is_client_error(net.status) \/ is_server_error(net.status)
         THEN Err(TeatimeError(
                     Message("", (IF text(net).ok THEN text(net).val ELSE EmptyBody), ""),
                     "HttpError", 500))
         ELSE Ok(net)

\* Client::make_request; net is what self.cli.execute(req) yields
make_request(c, r, net) ==
    IF ~net.delivered THEN Err(FromReqwestError(ReqwestError(net.what, FALSE)))
    ELSE LET status == net.status
         IN IF is_client_error(status) \/ is_server_error(status)
            THEN Err(TeatimeError(
                        Message("", (IF text(net).ok THEN text(net).val ELSE EmptyBody), ""),
                        "HttpError", status))
            ELSE Ok(net)

\* parse_response reporting a fixed status instead of the response's
parse_response_fixed_status(c, T, res) ==
    LET t == text(res)
    IN IF ~t.ok THEN Err(FromReqwestError(t.err))
       ELSE LET parsed == from_str(T, t.val)
            IN IF parsed.ok THEN parsed
               ELSE Err(TeatimeError(
                           Message("Error parsing response: ", EmptyBody, parsed.err),
                           "SerializationError", BAD_REQUEST))

\* Client::parse_response::<T>
parse_response(c, T, res) ==
    LET status_code == res.status
        t == text(res)
    IN IF ~t.ok THEN Err(FromReqwestError(t.err))
       ELSE LET parsed == from_str(T, t.val)
            IN IF parsed.ok THEN parsed
               ELSE Err(TeatimeError(
                           Message("Error parsing response: ", EmptyBody, parsed.err),
                           "SerializationError", status_code))

(***************************************************************************)
(* send of each builder.  Each returns what the call did: the request it   *)
(* handed to make_request (None when build() failed), what make_request    *)
(* returned (None when it was not called) and the result of send.          *)
(***************************************************************************)
Outcome(r, m, res) == [req |-> r, mr |-> m, result |-> res]

\* send converting the transport's error instead of returning it as it is
send_and_parse_converting(c, built, T, net) ==
    IF ~built.ok THEN Outcome(None, None, Err(FromReqwestError(built.err)))
    ELSE LET m == make_request(c, built.val, net)
         IN Outcome(Some(built.val), Some(m),
                    IF m.ok THEN parse_response(c, T, m.val)
                    ELSE Err(TeatimeError(m.err.message, "Other", BAD_REQUEST)))

\* let req = ...build()?;
\* let res = client.make_request(req).await?;
\* client.parse_response(res).await
send_and_parse(c, built, T, net) ==
    IF ~built.ok THEN Outcome(None, None, Err(FromReqwestError(built.err)))
    ELSE LET m == make_request(c, built.val, net)
         IN Outcome(Some(built.val), Some(m),
                    IF m.ok THEN parse_response(c, T, m.val) ELSE m)

\* .data keeping the items only when ok is true
data_if_ok(response) ==
    Val("Plain", ArrayOf(response.doc.model,
                         IF response.doc.ok THEN response.doc.data ELSE <<>>))

\* the field data of the struct Response { ok, data } declared inside send
data(response) == Val("Plain", ArrayOf(response.doc.model, response.doc.data))

\* let req = ...build()?;
\* let res = client.make_request(req).await?;
\* Ok(client.parse_response::<Response>(res).await?.data)
send_and_unwrap(c, built, T, net) ==
    IF ~built.ok THEN Outcome(None, None, Err(FromReqwestError(built.err)))
    ELSE LET m == make_request(c, built.val, net)
             parsed == parse_response(c, T, m.val)
         IN Outcome(Some(built.val), Some(m),
                    IF ~m.ok THEN m
                    ELSE IF parsed.ok THEN Ok(data(parsed.val)) ELSE parsed)

\* the delete reading the body of the response as JSON before it answers
send_and_discard_parsing(c, built, net) ==
    IF ~built.ok THEN Outcome(None, None, Err(FromReqwestError(built.err)))
    ELSE LET m == make_request(c, built.val, net)
             parsed == parse_response(c, Type("option", "User"), m.val)
         IN Outcome(Some(built.val), Some(m),
                    IF ~m.ok THEN m ELSE IF parsed.ok THEN Ok(Unit) ELSE parsed)

\* let req = ...build()?;
\* client.make_request(req).await?;
\* Ok(())
send_and_discard(c, built, net) ==
    IF ~built.ok THEN Outcome(None, None, Err(FromReqwestError(built.err)))
    ELSE LET m == make_request(c, built.val, net)
         IN Outcome(Some(built.val), Some(m), IF m.ok THEN Ok(Unit) ELSE m)

\* the existence check answering false to every error
send_and_check_any_error(c, built, net) ==
    IF ~built.ok THEN Outcome(None, None, Err(FromReqwestError(built.err)))
    ELSE LET m == make_request(c, built.val, net)
         IN Outcome(Some(built.val), Some(m), IF m.ok THEN Ok(True) ELSE Ok(False))

\* match client.make_request(req).await { Ok(_) => Ok(true),
\*   Err(e) => if e.status_code == NOT_FOUND { Ok(false) } else { Err(e) } }
send_and_check(c, built, net) ==
    IF ~built.ok THEN Outcome(None, None, Err(FromReqwestError(built.err)))
    ELSE LET m == make_request(c, built.val, net)
         IN Outcome(Some(built.val), Some(m),
                    IF m.ok THEN Ok(True)
                    ELSE IF m.err.status_code = NOT_FOUND THEN Ok(False) ELSE m)

\* let req = ...build()?;
\* let res = client.make_request(req).await?;
\* Ok(res.status())
send_and_status(c, built, net) ==
    IF ~built.ok THEN Outcome(None, None, Err(FromReqwestError(built.err)))
    ELSE LET m == make_request(c, built.val, net)
         IN Outcome(Some(built.val), Some(m), IF m.ok THEN Ok(m.val.status) ELSE m)

GetRepoBuilder_send(b, c, net) ==
    send_and_parse(c,
        get(c, Concat(<<<<"repos", "/">>, to_string("String", b.f.owner), <<"/">>,
                        to_string("String", b.f.repo)>>)),
        Type("struct", "Repository"), net)

UpdateRepoAvatarBuilder_send(b, c, net) ==
    send_and_status(c,
        json(post(c, Concat(<<<<"repos", "/">>, to_string("String", b.f.owner), <<"/">>,
                              to_string("String", b.f.repo), <<"/", "avatar">>>>)),
             UpdateRepoAvatarBuilder, b),
        net)

UpdateOrgAvatarBuilder_send(b, c, net) ==
    send_and_status(c,
        json(post(c, Concat(<<<<"orgs", "/">>, to_string("String", b.f.name),
                              <<"/", "avatar">>>>)),
             UpdateOrgAvatarBuilder, b),
        net)

IsMemberBuilder_send(b, c, net) ==
    send_and_check(c,
        get(c, Concat(<<<<"/", "orgs", "/">>, to_string("String", b.f.org),
                        <<"/", "members", "/">>, to_string("String", b.f.username)>>)),
        net)

IsPublicMemberBuilder_send(b, c, net) ==
    send_and_check(c,
        get(c, Concat(<<<<"/", "orgs", "/">>, to_string("String", b.f.org),
                        <<"/", "public_members", "/">>, to_string("String", b.f.username)>>)),
        net)

IsStarredBuilder_send(b, c, net) ==
    send_and_check(c,
        get(c, Concat(<<<<"/", "user", "/", "starred", "/">>, to_string("String", b.f.owner),
                        <<"/">>, to_string("String", b.f.repo)>>)),
        net)

GetUserBuilder_send(b, c, net) ==
    send_and_parse(c,
        get(c, Concat(<<<<"users", "/">>, to_string("String", b.f.username)>>)),
        Type("struct", "User"), net)

DeleteRepoBuilder_send(b, c, net) ==
    send_and_discard(c,
        delete(c, Concat(<<<<"repos", "/">>, to_string("String", b.f.owner), <<"/">>, to_string("String", b.f.repo)>>)),
        net)

EditCommentBuilder_send(b, c, net) ==
    send_and_parse(c,
        json(patch(c, Concat(<<<<"repos", "/">>, to_string("String", b.f.owner), <<"/">>, to_string("String", b.f.repo),
                               <<"/", "issues", "/", "comments", "/">>, to_string("i64", b.f.comment)>>)),
             EditCommentBuilder, b),
        Type("option", "Comment"), net)

CreateCommentBuilder_send(b, c, net) ==
    send_and_parse(c,
        json(post(c, Concat(<<<<"repos", "/">>, to_string("String", b.f.owner), <<"/">>, to_string("String", b.f.repo),
                              <<"/", "issues", "/">>, to_string("i64", b.f.issue),
                              <<"/", "comments">>>>)),
             CreateCommentBuilder, b),
        Type("struct", "Comment"), net)

EditRepoBuilder_send(b, c, net) ==
    send_and_parse(c,
        json(patch(c, Concat(<<<<"repos", "/">>, to_string("String", b.f.owner), <<"/">>, to_string("String", b.f.repo)>>)),
             EditRepoBuilder, b),
        Type("struct", "Repository"), net)

CreateIssueBuilder_send(b, c, net) ==
    send_and_parse(c,
        json(post(c, Concat(<<<<"repos", "/">>, to_string("String", b.f.owner), <<"/">>, to_string("String", b.f.repo),
                              <<"/", "issues">>>>)),
             CreateIssueBuilder, b),
        Type("struct", "Issue"), net)

EditIssueBuilder_send(b, c, net) ==
    send_and_parse(c,
        json(patch(c, Concat(<<<<"repos", "/">>, to_string("String", b.f.owner), <<"/">>,
                               to_string("String", b.f.repo), <<"/", "issues", "/">>,
                               to_string("i64", b.f.issue_number)>>)),
             EditIssueBuilder, b),
        Type("struct", "Issue"), net)

\* the derived append_query_params is not called and there is no .query()
ListReposBuilder_send(b, c, net) ==
    send_and_parse(c, get(c, <<"user", "/", "repos">>), Type("vec", "Repository"), net)

\* append_pair without the "if let Some": an unset field gives an empty value
append_always(b, name, key, ty) ==
    IF IsSome(b.f[name])
    THEN << <<key, IF ty = "Vec<String>" THEN join(b.f[name].v, ",")
                   ELSE to_string(ty, b.f[name].v)>> >>
    ELSE << <<key, <<>> >> >>

\* one hand-written "if let Some(x) = &self.x { params.append_pair(key, ..) }"
append_if_some(b, name, key, ty) ==
    IF IsSome(b.f[name])
    THEN << <<key, IF ty = "Vec<String>" THEN join(b.f[name].v, ",")
                   ELSE to_string(ty, b.f[name].v)>> >>
    ELSE <<>>

ListIssuesBuilder_send(b, c, net) ==
    LET rb == get(c, Concat(<<<<"repos", "/">>, to_string("String", b.f.owner), <<"/">>, to_string("String", b.f.repo),
                              <<"/", "issues">>>>))
        params == Concat(<<
            append_if_some(b, "state", "state", "State"),
            append_if_some(b, "labels", "labels", "Vec<String>"),
            append_if_some(b, "query", "q", "String"),
            append_if_some(b, "issue_type", "type", "IssueType"),
            append_if_some(b, "milestone", "milestone", "String"),
            append_if_some(b, "since", "since", "String"),
            append_if_some(b, "before", "before", "String"),
            append_if_some(b, "created_by", "created_by", "String"),
            append_if_some(b, "assigned_by", "assigned_by", "String"),
            append_if_some(b, "mentioned_by", "mentioned_by", "String"),
            append_if_some(b, "page", "page", "i64"),
            append_if_some(b, "limit", "limit", "i64")>>)
    IN send_and_parse(c,
          (IF rb.ok THEN Ok(append_pairs(rb.val, params)) ELSE rb),
          Type("vec", "Issue"), net)

SearchIssuesBuilder_send(b, c, net) ==
    LET rb == get(c, <<"repos", "/", "issues", "/", "search">>)
        derived == append_query_params(SearchIssuesBuilder, b)
        labels == append_if_some(b, "labels", "labels", "Vec<String>")
    IN send_and_parse(c,
          (IF rb.ok
           THEN Ok(IF IsSome(b.f.labels)
                   THEN append_pairs(append_pairs(rb.val, derived), labels)
                   ELSE append_pairs(rb.val, derived))
           ELSE rb),
          Type("vec", "Issue"), net)

ListPullRequestsBuilder_send(b, c, net) ==
    send_and_parse(c,
        query(get(c, Concat(<<<<"/", "repos", "/">>, to_string("String", b.f.owner), <<"/">>, to_string("String", b.f.repo),
                              <<"/", "pulls">>>>)),
              ListPullRequestsBuilder, b),
        Type("vec", "PullRequest"), net)

ListMembersBuilder_send(b, c, net) ==
    send_and_parse(c,
        query(get(c, Concat(<<<<"/", "orgs", "/">>, to_string("String", b.f.org),
                              <<"/", "members">>>>)),
              ListMembersBuilder, b),
        Type("vec", "User"), net)

RemoveMemberBuilder_send(b, c, net) ==
    send_and_discard(c,
        delete(c, Concat(<<<<"/", "orgs", "/">>, to_string("String", b.f.org),
                           <<"/", "members", "/">>, to_string("String", b.f.username)>>)),
        net)

SearchUsersBuilder_send(b, c, net) ==
    send_and_unwrap(c,
        query(get(c, <<"users", "/", "search">>), SearchUsersBuilder, b),
        Type("envelope", "User"), net)

SearchRepositoriesBuilder_send(b, c, net) ==
    LET rb == get(c, <<"repos", "/", "search">>)
        params == Concat(<<
            append_if_some(b, "q", "q", "String"),
            append_if_some(b, "topic", "topic", "bool"),
            append_if_some(b, "starred_by", "starredBy", "i64"),
            append_if_some(b, "mode", "mode", "String"),
            append_if_some(b, "page", "page", "i32"),
            append_if_some(b, "limit", "limit", "i32")>>)
    IN send_and_unwrap(c,
          (IF rb.ok THEN Ok(append_pairs(rb.val, params)) ELSE rb),
          Type("envelope", "Repository"), net)

DeleteIssueBuilder_send(b, c, net) ==
    send_and_discard(c,
        delete(c, Concat(<<<<"repos", "/">>, to_string("String", b.f.owner), <<"/">>,
                           to_string("String", b.f.repo), <<"/", "issues", "/">>,
                           to_string("i64", b.f.issue_number)>>)),
        net)

DeleteCommentBuilder_send(b, c, net) ==
    send_and_discard(c,
        delete(c, Concat(<<<<"repos", "/">>, to_string("String", b.f.owner), <<"/">>,
                           to_string("String", b.f.repo),
                           <<"/", "issues", "/", "comments", "/">>,
                           to_string("i64", b.f.comment)>>)),
        net)

DeleteBranchBuilder_send(b, c, net) ==
    send_and_discard(c,
        delete(c, Concat(<<<<"repos", "/">>, to_string("String", b.f.owner), <<"/">>,
                           to_string("String", b.f.repo), <<"/", "branches", "/">>,
                           to_string("String", b.f.branch)>>)),
        net)

DeleteOrgBuilder_send(b, c, net) ==
    send_and_discard(c,
        delete(c, Concat(<<<<"orgs", "/">>, to_string("String", b.f.name)>>)), net)

DeleteAccessTokenBuilder_send(b, c, net) ==
    send_and_discard(c,
        delete(c, Concat(<<<<"users", "/">>, to_string("String", b.f.user),
                           <<"/", "tokens", "/">>, to_string("String", b.f.token)>>)),
        net)

send(b, c, net) ==
    CASE b.kind = "IsMemberBuilder"         -> IsMemberBuilder_send(b, c, net)
      [] b.kind = "IsPublicMemberBuilder"   -> IsPublicMemberBuilder_send(b, c, net)
      [] b.kind = "IsStarredBuilder"        -> IsStarredBuilder_send(b, c, net)
      [] b.kind = "GetUserBuilder"          -> GetUserBuilder_send(b, c, net)
      [] b.kind = "DeleteRepoBuilder"       -> DeleteRepoBuilder_send(b, c, net)
      [] b.kind = "EditCommentBuilder"      -> EditCommentBuilder_send(b, c, net)
      [] b.kind = "CreateCommentBuilder"    -> CreateCommentBuilder_send(b, c, net)
      [] b.kind = "EditRepoBuilder"         -> EditRepoBuilder_send(b, c, net)
      [] b.kind = "CreateIssueBuilder"      -> CreateIssueBuilder_send(b, c, net)
      [] b.kind = "ListReposBuilder"        -> ListReposBuilder_send(b, c, net)
      [] b.kind = "ListIssuesBuilder"       -> ListIssuesBuilder_send(b, c, net)
      [] b.kind = "SearchIssuesBuilder"     -> SearchIssuesBuilder_send(b, c, net)
      [] b.kind = "ListPullRequestsBuilder" -> ListPullRequestsBuilder_send(b, c, net)
      [] b.kind = "ListMembersBuilder"      -> ListMembersBuilder_send(b, c, net)
      [] b.kind = "RemoveMemberBuilder"     -> RemoveMemberBuilder_send(b, c, net)
      [] b.kind = "SearchUsersBuilder"      -> SearchUsersBuilder_send(b, c, net)
      [] b.kind = "SearchRepositoriesBuilder" -> SearchRepositoriesBuilder_send(b, c, net)
      [] b.kind = "DeleteIssueBuilder"      -> DeleteIssueBuilder_send(b, c, net)
      [] b.kind = "DeleteCommentBuilder"    -> DeleteCommentBuilder_send(b, c, net)
      [] b.kind = "DeleteBranchBuilder"     -> DeleteBranchBuilder_send(b, c, net)
      [] b.kind = "DeleteOrgBuilder"        -> DeleteOrgBuilder_send(b, c, net)
      [] b.kind = "DeleteAccessTokenBuilder" -> DeleteAccessTokenBuilder_send(b, c, net)
      [] b.kind = "GetRepoBuilder"          -> GetRepoBuilder_send(b, c, net)
      [] b.kind = "EditIssueBuilder"        -> EditIssueBuilder_send(b, c, net)
      [] b.kind = "UpdateRepoAvatarBuilder" -> UpdateRepoAvatarBuilder_send(b, c, net)
      [] b.kind = "UpdateOrgAvatarBuilder"  -> UpdateOrgAvatarBuilder_send(b, c, net)

\* the type send deserializes the response into; "none" when it reads no body
ResponseType(kind) ==
    CASE kind \in ExistenceChecks \cup DeleteStyle -> Type("none", "")
      [] kind = "ListMembersBuilder"      -> Type("vec", "User")
      [] kind = "SearchUsersBuilder"      -> Type("envelope", "User")
      [] kind = "SearchRepositoriesBuilder" -> Type("envelope", "Repository")
      [] kind = "GetUserBuilder"          -> Type("struct", "User")
      [] kind = "EditCommentBuilder"      -> Type("option", "Comment")
      [] kind = "CreateCommentBuilder"    -> Type("struct", "Comment")
      [] kind = "EditRepoBuilder"         -> Type("struct", "Repository")
      [] kind = "CreateIssueBuilder"      -> Type("struct", "Issue")
      [] kind = "ListReposBuilder"        -> Type("vec", "Repository")
      [] kind = "ListIssuesBuilder"       -> Type("vec", "Issue")
      [] kind = "SearchIssuesBuilder"     -> Type("vec", "Issue")
      [] kind = "ListPullRequestsBuilder" -> Type("vec", "PullRequest")

(***************************************************************************)
(* What the server and the network can answer                              *)
(***************************************************************************)
\* the body texts a server sends to a request of this kind: no body, null,
\* a text that is not JSON, and the JSON text of the model send expects
Bodies(kind) ==
    LET m == IF ResponseType(kind).model = "" THEN "User" ELSE ResponseType(kind).model
        valid == IF ResponseType(kind).shape = "vec" THEN "array" ELSE "object"
    IN IF ResponseType(kind).shape = "envelope"
       THEN {EmptyBody, Garbage, Body("array", m), Envelope(TRUE, m, <<1, 2>>),
             Envelope(FALSE, m, <<1, 2>>), Envelope(FALSE, m, <<2, 1>>)}
       ELSE {EmptyBody, NullBody, Garbage, Body(valid, m)}

NetOutcomes(kind) ==
    {Response(s, body, TRUE, FALSE) : s \in Statuses, body \in Bodies(kind)}
    \cup {Response(200, EmptyBody, FALSE, d) : d \in BOOLEAN}
    \cup {Response(NOT_FOUND, EmptyBody, FALSE, FALSE), NoResponse("error sending request")}

(***************************************************************************)
(* The state machine: one call at a time, from new() through the setters   *)
(* to send(), on a Client that was built once.                             *)
(***************************************************************************)
BaseUrls == {"https://example.test"}

\* the credentials a caller passes: the token "ci", a token with a line
\* feed in it, the user "ab" with the password "c", and none
Auths ==
    {AuthToken(<<99, 105>>), AuthToken(<<99, 10>>), AuthBasic(<<97, 98>>, <<99>>),
     AuthNone}

\* the clients Client::new returns
Clients ==
    {made.val : made \in {x \in {Client_new(u, a) : u \in BaseUrls, a \in Auths} : x.ok}}

\* the calls of self.cli.execute in one send that retries a failed call
executed_by_retrying(c, out) ==
    IF ~IsSome(out.mr) THEN <<>>
    ELSE IF out.mr.v.ok THEN <<execute(c, out.req.v)>>
         ELSE <<execute(c, out.req.v), execute(c, out.req.v)>>

\* the calls of self.cli.execute one send makes: make_request, called at
\* most once by each send, calls it once
executed_by(c, out) ==
    IF IsSome(out.mr) THEN <<execute(c, out.req.v)>> ELSE <<>>

\* a client that keeps the last path segment it addressed as its base URL
client_after_keeping_url(c, r) == [c EXCEPT !.base_url = r.url[Len(r.url)]]

\* the Client after make_request(&self, req): every method of Client takes
\* &self and neither field has interior mutability
client_after(c, r) == c

\* the clients built with the token "ci"
TokenClients == {Client_new(u, AuthToken(<<99, 105>>)).val : u \in BaseUrls}

Init ==
    /\ client \in TokenClients
    /\ pc = "idle"
    /\ builder = None
    /\ req = None
    /\ resp = None
    /\ mr = None
    /\ result = None
    /\ executed = <<>>
    /\ tasks = <<>>
    /\ trip = None

\* XBuilder::new(args)
New(kind, args) ==
    /\ pc = "idle"
    /\ pc' = "building"
    /\ builder' = Some(new(kind, args))
    /\ UNCHANGED <<client, req, resp, mr, result, executed, tasks, trip>>

\* builder.name(value), name the i-th field of the struct
Set(i, value) ==
    /\ pc = "building"
    /\ Fields(builder.v.kind)[i].opt
    /\ \/ IsSome(builder.v.f[Fields(builder.v.kind)[i].name])
       \/ Cardinality(SetNames(builder.v)) < MaxSet
    /\ builder' = Some(setter(builder.v, Fields(builder.v.kind)[i].name, value))
    /\ UNCHANGED <<client, pc, req, resp, mr, result, executed, tasks, trip>>

\* builder.send(&client).await, the network answering net
Send(net) ==
    /\ pc = "building"
    /\ \E out \in {send(builder.v, client, net)} :
          /\ req' = out.req
          /\ mr' = out.mr
          /\ result' = Some(out.result)
          /\ resp' = IF IsSome(out.mr) THEN Some(net) ELSE None
          /\ executed' = executed_by(client, out)
          /\ client' = IF IsSome(out.mr) THEN client_after(client, out.req.v) ELSE client
    /\ pc' = "done"
    /\ UNCHANGED <<builder, tasks, trip>>

\* the builder and the result are dropped
Drop ==
    /\ pc = "done"
    /\ pc' = "idle"
    /\ builder' = None
    /\ req' = None
    /\ resp' = None
    /\ mr' = None
    /\ result' = None
    /\ executed' = <<>>
    /\ UNCHANGED <<client, tasks, trip>>

RECURSIVE ArgChoices(_)
\* every way to pass arguments for these parameters
ArgChoices(names) ==
    IF names = {} THEN {<<>>}
    ELSE LET n == CHOOSE x \in names : TRUE
         IN {(n :> v) @@ a : v \in Args(n), a \in ArgChoices(names \ {n})}

Next ==
    \/ \E kind \in Kinds :
         \E args \in ArgChoices(RequiredNames(kind)) :
            New(kind, args)
    \/ /\ pc = "building"
       /\ \E i \in FieldIndex(builder.v.kind) :
            \E value \in Values(Fields(builder.v.kind)[i].ty) : Set(i, value)
    \/ /\ pc = "building"
       /\ \E net \in NetOutcomes(builder.v.kind) : Send(net)
    \/ Drop

Spec == Init /\ [][Next]_vars

(***************************************************************************)
(* The same calls on a client built with each kind of credentials          *)
(***************************************************************************)
\* the builders called on these clients: a GET, a GET with a query, a POST
\* with a body and a DELETE
AuthKinds ==
    {"GetUserBuilder", "ListMembersBuilder", "CreateCommentBuilder", "DeleteOrgBuilder"}

AuthInit ==
    /\ client \in Clients
    /\ pc = "idle"
    /\ builder = None
    /\ req = None
    /\ resp = None
    /\ mr = None
    /\ result = None
    /\ executed = <<>>
    /\ tasks = <<>>
    /\ trip = None

AuthNext ==
    \/ \E kind \in AuthKinds :
         \E args \in ArgChoices(RequiredNames(kind)) :
            New(kind, args)
    \/ /\ pc = "building"
       /\ \E i \in FieldIndex(builder.v.kind) :
            \E value \in Values(Fields(builder.v.kind)[i].ty) : Set(i, value)
    \/ /\ pc = "building"
       /\ \E net \in NetOutcomes(builder.v.kind) : Send(net)
    \/ Drop

AuthSpec == AuthInit /\ [][AuthNext]_vars

(***************************************************************************)
(* Concurrent calls: the caller runs several sends on one shared Client.   *)
(* A send runs up to its first await (the request is built and handed to   *)
(* execute), is suspended, and resumes when the network answers; the       *)
(* sends of the tasks interleave at these points.                          *)
(***************************************************************************)
NumTasks == 2
Tasks == 1..NumTasks

\* the builders the concurrent callers use
ConcKinds == {"IsMemberBuilder", "CreateCommentBuilder"}

\* what the network answers to a concurrent call
ConcNetOutcomes(kind) ==
    {net \in NetOutcomes(kind) :
        \/ ~net.delivered
        \/ /\ net.readable
           /\ <<net.status, net.body.kind>> \in {<<200, "object">>, <<NOT_FOUND, "garbage">>}}

Task(p, b, r, a, res) == [pc |-> p, builder |-> b, req |-> r, resp |-> a, result |-> res]
IdleTask == Task("idle", None, None, None, None)

\* the part of send before its first await: the request it builds
\* (send builds the same request whatever the network answers later)
start(b, c) == send(b, c, NoResponse("error sending request"))

ConcInit ==
    /\ client \in Clients
    /\ tasks = [t \in Tasks |-> IdleTask]
    /\ executed = <<>>
    /\ pc = "idle"
    /\ builder = None
    /\ req = None
    /\ resp = None
    /\ mr = None
    /\ result = None
    /\ trip = None

\* task t: XBuilder::new(args)
CNew(t, kind, args) ==
    /\ tasks[t].pc = "idle"
    /\ tasks' = [tasks EXCEPT ![t] = Task("building", Some(new(kind, args)), None, None, None)]
    /\ UNCHANGED <<client, executed, pc, builder, req, resp, mr, result, trip>>

\* task t: builder.name(value)
CSet(t, i, value) ==
    /\ tasks[t].pc = "building"
    /\ Fields(tasks[t].builder.v.kind)[i].opt
    /\ tasks' = [tasks EXCEPT ![t].builder =
                    Some(setter(@.v, Fields(@.v.kind)[i].name, value))]
    /\ UNCHANGED <<client, executed, pc, builder, req, resp, mr, result, trip>>

\* task t: builder.send(&client) up to the await of execute; a send that
\* cannot build its request returns at once
CStart(t) ==
    /\ tasks[t].pc = "building"
    /\ \E out \in {start(tasks[t].builder.v, client)} :
          IF IsSome(out.req)
          THEN /\ tasks' = [tasks EXCEPT ![t].pc = "awaiting", ![t].req = out.req]
               /\ executed' = executed \o executed_by(client, out)
               /\ client' = client_after(client, out.req.v)
          ELSE /\ tasks' = [tasks EXCEPT ![t].pc = "done", ![t].result = Some(out.result)]
               /\ UNCHANGED <<client, executed>>
    /\ UNCHANGED <<pc, builder, req, resp, mr, result, trip>>

\* task t: the network answers net and send runs to its end
CFinish(t, net) ==
    /\ tasks[t].pc = "awaiting"
    /\ tasks' = [tasks EXCEPT ![t].pc = "done",
                              ![t].resp = Some(net),
                              ![t].result = Some(send(tasks[t].builder.v, client, net).result)]
    /\ UNCHANGED <<client, executed, pc, builder, req, resp, mr, result, trip>>

ConcNext ==
    \E t \in Tasks :
       \/ \E kind \in ConcKinds :
            \E args \in ArgChoices(RequiredNames(kind)) : CNew(t, kind, args)
       \/ /\ tasks[t].pc = "building"
          /\ \E i \in FieldIndex(tasks[t].builder.v.kind) :
               \E value \in Values(Fields(tasks[t].builder.v.kind)[i].ty) : CSet(t, i, value)
       \/ CStart(t)
       \/ /\ tasks[t].pc = "awaiting"
          /\ \E net \in ConcNetOutcomes(tasks[t].builder.v.kind) : CFinish(t, net)

ConcSpec == ConcInit /\ [][ConcNext]_vars

(***************************************************************************)
(* Properties                                                              *)
(***************************************************************************)
Done == pc = "done"
\* send handed a request to make_request and a response came back
Answered == Done /\ IsSome(mr) /\ resp.v.delivered
ErrorStatus(s) == is_client_error(s) \/ is_server_error(s)
\* the error make_request is to return for an error response
HttpErrorOf(res) ==
    TeatimeError(Message("", IF res.readable THEN res.body ELSE EmptyBody, ""),
                 "HttpError", res.status)

IsExistenceCheck == IsSome(builder) /\ builder.v.kind \in ExistenceChecks

C3_NoContentIsNone ==
    (Answered /\ builder.v.kind = "EditCommentBuilder" /\ resp.v.readable) =>
        /\ (resp.v.status = NO_CONTENT /\ resp.v.body = EmptyBody) =>
              result.v = Ok(Val("None", EmptyBody))
        /\ (resp.v.status = 200 /\ resp.v.body = Body("object", "Comment")) =>
              result.v = Ok(Val("Some", Body("object", "Comment")))

\* the wire name the API documents for a field
DocumentedKey(name) ==
    CASE name = "query" -> "q"
      [] name = "issue_type" -> "type"
      [] name = "starred_by" -> "starredBy"
      [] OTHER -> name

Sent == Done /\ IsSome(req)
HasJsonBody == Sent /\ req.v.method \in {"POST", "PATCH"}
UnsetNames(b) == OptionalNames(b.kind) \ SetNames(b)

\* C4 as stated: an optional field that was never set is not a key of the
\* JSON body of a POST/PATCH builder; an EditRepoBuilder without any setter
\* call sends a body without keys.
C4_UnsetFieldsOmittedFromBody ==
    HasJsonBody =>
        /\ \A n \in UnsetNames(builder.v) : DocumentedKey(n) \notin BodyKeys(req.v)
        /\ (builder.v.kind = "EditRepoBuilder" /\ SetNames(builder.v) = {}) =>
              BodyPairs(req.v) = <<>>

\* C5 as stated: every optional field that was set appears in the rendered
\* request, in the JSON body of a POST/PATCH builder and in the query
\* string of a GET builder; list_repos().limit(l).page(p) sends page=p and
\* limit=l.
C5_SetFieldsRendered ==
    Sent =>
        /\ \A n \in SetNames(builder.v) :
              DocumentedKey(n) \in (IF HasJsonBody THEN BodyKeys(req.v) ELSE QueryKeys(req.v))
        /\ builder.v.kind = "ListReposBuilder" =>
              \A n \in SetNames(builder.v) :
                 \E i \in 1..Len(QueryPairs(req.v)) :
                    QueryPairs(req.v)[i] = <<n, <<ToString(builder.v.f[n].v)>> >>

\* C6: for every builder other than the three existence checks, a 4xx/5xx
\* response makes send return the error of make_request unchanged: kind
\* HttpError, the status of the response, the body text as the message.
C6_ErrorsPropagateUnchanged ==
    (Answered /\ ~IsExistenceCheck /\ ErrorStatus(resp.v.status)) =>
        /\ result.v = Err(HttpErrorOf(resp.v))
        /\ result.v = mr.v

C6_Witness ==
    /\ Answered /\ builder.v.kind = "GetUserBuilder" /\ resp.v.status = NOT_FOUND
    /\ ~result.v.ok /\ result.v.err.status_code = NOT_FOUND

\* the JSON texts that are a value of type T
ValidJsonFor(T, txt) ==
    \/ T.shape = "struct" /\ txt = Body("object", T.model)
    \/ T.shape = "vec" /\ txt = Body("array", T.model)
    \/ T.shape = "option" /\ txt \in {NullBody, Body("object", T.model)}
    \/ T.shape = "envelope" /\ txt.kind = "envelope" /\ txt.model = T.model

\* send passed a response to parse_response and its body text was read
Parsed ==
    /\ Answered /\ mr.v.ok /\ resp.v.readable
    /\ ResponseType(builder.v.kind).shape # "none"

\* C7: parse_response returns Ok of the value when the body text is valid
\* JSON for T and otherwise an error of kind SerializationError with the
\* status of that same response and a message carrying the deserializer's.
C7_ParseResponse ==
    Parsed =>
        IF ValidJsonFor(ResponseType(builder.v.kind), resp.v.body)
        THEN /\ result.v.ok
             /\ IF ResponseType(builder.v.kind).shape = "envelope"
                THEN result.v.val.doc.items = resp.v.body.data
                ELSE result.v.val.doc = resp.v.body
        ELSE /\ ~result.v.ok
             /\ result.v.err.kind = "SerializationError"
             /\ result.v.err.status_code = resp.v.status
             /\ result.v.err.message.prefix = "Error parsing response: "
             /\ result.v.err.message.detail = de_message(resp.v.body)

C7_Witness ==
    /\ Parsed /\ builder.v.kind = "ListIssuesBuilder"
    /\ resp.v.status = 304 /\ resp.v.body = Garbage
    /\ ~result.v.ok /\ result.v.err.kind = "SerializationError"
    /\ result.v.err.status_code = 304

RECURSIVE Segments(_)
\* the path a/b/c of the segments a, b, c
Segments(segs) ==
    IF Len(segs) = 1 THEN <<segs[1]>>
    ELSE <<segs[1], "/">> \o Segments(Tail(segs))

\* the relative path the API documents for the operation of a builder
DocumentedPath(b) ==
    CASE b.kind = "IsMemberBuilder" ->
           Segments(<<"orgs", b.f.org, "members", b.f.username>>)
      [] b.kind = "IsPublicMemberBuilder" ->
           Segments(<<"orgs", b.f.org, "public_members", b.f.username>>)
      [] b.kind = "IsStarredBuilder" ->
           Segments(<<"user", "starred", b.f.owner, b.f.repo>>)
      [] b.kind = "GetUserBuilder" -> Segments(<<"users", b.f.username>>)
      [] b.kind \in {"DeleteRepoBuilder", "EditRepoBuilder"} ->
           Segments(<<"repos", b.f.owner, b.f.repo>>)
      [] b.kind = "EditCommentBuilder" ->
           Segments(<<"repos", b.f.owner, b.f.repo, "issues", "comments", ToString(b.f.comment)>>)
      [] b.kind = "CreateCommentBuilder" ->
           Segments(<<"repos", b.f.owner, b.f.repo, "issues", ToString(b.f.issue), "comments">>)
      [] b.kind \in {"CreateIssueBuilder", "ListIssuesBuilder"} ->
           Segments(<<"repos", b.f.owner, b.f.repo, "issues">>)
      [] b.kind = "ListReposBuilder" -> Segments(<<"user", "repos">>)
      [] b.kind = "SearchIssuesBuilder" -> Segments(<<"repos", "issues", "search">>)
      [] b.kind = "ListPullRequestsBuilder" ->
           Segments(<<"repos", b.f.owner, b.f.repo, "pulls">>)
      [] b.kind = "ListMembersBuilder" -> Segments(<<"orgs", b.f.org, "members">>)
      [] b.kind = "RemoveMemberBuilder" ->
           Segments(<<"orgs", b.f.org, "members", b.f.username>>)
      [] b.kind = "SearchUsersBuilder" -> Segments(<<"users", "search">>)
      [] b.kind = "SearchRepositoriesBuilder" -> Segments(<<"repos", "search">>)
      [] b.kind = "DeleteIssueBuilder" ->
           Segments(<<"repos", b.f.owner, b.f.repo, "issues", ToString(b.f.issue_number)>>)
      [] b.kind = "DeleteCommentBuilder" ->
           Segments(<<"repos", b.f.owner, b.f.repo, "issues", "comments", ToString(b.f.comment)>>)
      [] b.kind = "DeleteBranchBuilder" ->
           Segments(<<"repos", b.f.owner, b.f.repo, "branches", b.f.branch>>)
      [] b.kind = "DeleteOrgBuilder" -> Segments(<<"orgs", b.f.name>>)
      [] b.kind = "DeleteAccessTokenBuilder" ->
           Segments(<<"users", b.f.user, "tokens", b.f.token>>)

\* C8 as stated: send addresses exactly {base_url}/api/v1/{path}, path the
\* documented relative path, with exactly one "/" between api/v1 and it.
C8_UrlIsBasePlusDocumentedPath ==
    Sent =>
        req.v.url = <<client.base_url, "/", "api", "/", "v1", "/">> \o DocumentedPath(builder.v)

\* the pairs of a query with this key
PairsWithKey(r, key) == {i \in 1..Len(QueryPairs(r)) : QueryPairs(r)[i][1] = key}

\* C9 as stated: in ListIssuesBuilder and SearchIssuesBuilder a labels list
\* and a milestones list that were set are each rendered as exactly one
\* query key whose value is the elements joined by commas.
C9_ListsCommaJoined ==
    (Sent /\ builder.v.kind \in {"ListIssuesBuilder", "SearchIssuesBuilder"}) =>
        \A n \in {"labels", "milestones"} \cap SetNames(builder.v) :
           /\ Cardinality(PairsWithKey(req.v, n)) = 1
           /\ \A i \in PairsWithKey(req.v, n) :
                 QueryPairs(req.v)[i][2] = join(builder.v.f[n].v, ",")

\* C10 as stated: whatever the values of its optional fields, send
\* dispatches the request to the server; it never fails locally.
C10_SendAlwaysDispatches ==
    Done => (IsSome(req) /\ IsSome(mr))

IsGet == Sent /\ req.v.method = "GET"

\* C11: in the request of a GET builder no optional field that was not set
\* has a query key, under its wire name or under its field name, and the
\* request of a builder on which no setter was called has no query pairs.
C11_UnsetFieldsHaveNoQueryKey ==
    IsGet =>
        /\ \A n \in UnsetNames(builder.v) :
              {n, DocumentedKey(n)} \cap QueryKeys(req.v) = {}
        /\ SetNames(builder.v) = {} => QueryPairs(req.v) = <<>>

C11_Witness ==
    /\ IsGet /\ builder.v.kind = "ListIssuesBuilder"
    /\ SetNames(builder.v) = {"page"}
    /\ QueryKeys(req.v) = {"page"}

\* the builders with a documented wire rename, and their renamed fields
Renamed(kind) ==
    CASE kind \in {"ListIssuesBuilder", "SearchIssuesBuilder"} -> {"query", "issue_type"}
      [] kind = "SearchUsersBuilder" -> {"query"}
      [] OTHER -> {}

\* the text of a value of a renamed field on the wire
WireValue(name, v) ==
    CASE name = "query" -> Text(v)
      [] name = "issue_type" -> IF v = "Pulls" THEN <<"pulls">> ELSE <<"issues">>

\* C12: in ListIssuesBuilder, SearchIssuesBuilder and SearchUsersBuilder a
\* set query is rendered as the pair q=<value> and a set issue_type as
\* type=<value>, and query and issue_type are never query keys.
C12_RenamedFieldsUseWireName ==
    Sent =>
        \A n \in Renamed(builder.v.kind) :
           /\ n \notin QueryKeys(req.v)
           /\ n \in SetNames(builder.v) =>
                 \E i \in 1..Len(QueryPairs(req.v)) :
                    QueryPairs(req.v)[i] =
                       <<DocumentedKey(n), WireValue(n, builder.v.f[n].v)>>

C12_Witness ==
    /\ Sent /\ builder.v.kind = "SearchIssuesBuilder"
    /\ SetNames(builder.v) = {"query", "issue_type"}
    /\ QueryKeys(req.v) = {"q", "type"}

IsEnvelopeSearch ==
    IsSome(builder) /\ builder.v.kind \in {"SearchRepositoriesBuilder", "SearchUsersBuilder"}

\* C13: SearchRepositoriesBuilder::send and SearchUsersBuilder::send, given a
\* 2xx response whose body is {"ok": b, "data": [x1..xn]}, return Ok of the
\* list [x1..xn] in that order, whatever b is.
C13_EnvelopeUnwrapped ==
    (IsEnvelopeSearch /\ Answered /\ is_success(resp.v.status) /\ resp.v.readable
        /\ resp.v.body.kind = "envelope") =>
        result.v = Ok(Val("Plain", ArrayOf(resp.v.body.model, resp.v.body.data)))

C13_Witness ==
    /\ IsEnvelopeSearch /\ Answered /\ builder.v.kind = "SearchUsersBuilder"
    /\ resp.v.status = 200 /\ resp.v.body = Envelope(FALSE, "User", <<2, 1>>)
    /\ result.v.ok /\ result.v.val.doc.items = <<2, 1>>

C16_CreateIssueLiteral ==
    (Done /\ builder.v.kind = "CreateIssueBuilder" /\ SetNames(builder.v) = {}
        /\ builder.v.f.owner = "acme" /\ builder.v.f.repo = "widgets"
        /\ builder.v.f.title = "bug") =>
        /\ IsSome(req)
        /\ req.v.method = "POST"
        /\ req.v.url = <<client.base_url, "/", "api", "/", "v1", "/",
                         "repos", "/", "acme", "/", "widgets", "/", "issues">>
        /\ req.v.query = None
        /\ req.v.body = Some(<< <<"title", JVal("String", "bug")>> >>)
        /\ executed[1].body = req.v.body

C16_Witness ==
    /\ Done /\ builder.v.kind = "CreateIssueBuilder" /\ SetNames(builder.v) = {}
    /\ IsSome(req) /\ BodyKeys(req.v) = {"title"}

\* C17: list issues on acme/widgets with page 2 and limit 10 and nothing
\* else set sends a GET to repos/acme/widgets/issues?page=2&limit=10: page
\* before limit and no other query key.
C17_ListIssuesLiteral ==
    (Done /\ builder.v.kind = "ListIssuesBuilder"
        /\ builder.v.f.owner = "acme" /\ builder.v.f.repo = "widgets"
        /\ SetNames(builder.v) = {"page", "limit"}
        /\ builder.v.f.page = Some(2) /\ builder.v.f.limit = Some(10)) =>
        /\ IsSome(req)
        /\ req.v.method = "GET"
        /\ req.v.url = <<client.base_url, "/", "api", "/", "v1", "/",
                         "repos", "/", "acme", "/", "widgets", "/", "issues">>
        /\ req.v.query = Some(<< <<"page", <<"2">> >>, <<"limit", <<"10">> >> >>)
        /\ req.v.body = None

C17_Witness ==
    /\ Done /\ builder.v.kind = "ListIssuesBuilder"
    /\ builder.v.f.page = Some(2) /\ builder.v.f.limit = Some(10)
    /\ IsSome(req) /\ Len(QueryPairs(req.v)) = 2

\* the number of a character in the base64 alphabet
sextet(char) == CHOOSE i \in 0..63 : alphabet(i) = char

RECURSIVE decode(_)
\* the bytes a padded base64 text stands for
decode(chars) ==
    IF Len(chars) < 4 THEN <<>>
    ELSE LET i1 == sextet(chars[1])
             i2 == sextet(chars[2])
             b1 == i1 * 4 + i2 \div 16
         IN IF chars[3] = 61 THEN <<b1>>
            ELSE LET i3 == sextet(chars[3])
                     b2 == (i2 % 16) * 16 + i3 \div 4
                 IN IF chars[4] = 61 THEN <<b1, b2>>
                    ELSE <<b1, b2, (i3 % 4) * 64 + sextet(chars[4])>>
                         \o decode(SubSeq(chars, 5, Len(chars)))

\* the Authorization header the credentials call for
AuthorizationMatches(auth, headers) ==
    CASE auth.variant = "None" -> "authorization" \notin DOMAIN headers
      [] auth.variant = "Token" ->
           /\ "authorization" \in DOMAIN headers
           /\ headers["authorization"] = <<116, 111, 107, 101, 110, 32>> \o auth.token
      [] auth.variant = "Basic" ->
           /\ "authorization" \in DOMAIN headers
           /\ LET h == headers["authorization"]
              IN /\ Len(h) > 6
                 /\ SubSeq(h, 1, 6) = <<66, 97, 115, 105, 99, 32>>
                 /\ decode(SubSeq(h, 7, Len(h))) = auth.user \o <<58>> \o auth.pass

\* the credentials a client was built with
AuthOf(c) == CHOOSE a \in Auths : Client_new(c.base_url, a) = Ok(c)

\* C18: every request a client executes carries the Authorization header of
\* the credentials it was built with ("token t", "Basic base64(u:p)", or no
\* such header for Auth::None) and Accept: application/json.
C18_AuthorizationOnEveryRequest ==
    \A i \in 1..Len(executed) :
       /\ AuthorizationMatches(AuthOf(client), executed[i].headers)
       /\ "accept" \in DOMAIN executed[i].headers
       /\ executed[i].headers["accept"] = application_json

\* the user "ab" with the password "c" gives Basic YWI6Yw==
C18_Witness ==
    /\ Len(executed) = 1
    /\ AuthOf(client) = AuthBasic(<<97, 98>>, <<99>>)
    /\ executed[1].headers["authorization"] =
          <<66, 97, 115, 105, 99, 32, 89, 87, 73, 54, 89, 119, 61, 61>>

\* send got no response: the request could not be built, or execute failed
NoResponseAtAll == Done /\ (req = None \/ ~resp.v.delivered)

\* C19: when the HTTP layer fails without a response, send returns Err of a
\* TeatimeError whose status_code is 400 Bad Request.
C19_TransportFailureIsBadRequest ==
    NoResponseAtAll =>
        /\ ~result.v.ok
        /\ result.v.err.status_code = BAD_REQUEST

C19_Witness ==
    /\ NoResponseAtAll /\ builder.v.kind = "IsMemberBuilder" /\ IsSome(req)
    /\ ~result.v.ok /\ result.v.err.status_code = BAD_REQUEST
    /\ result.v.err.kind = "HttpError"

\* C20: the delete-style builders return Ok(()) for every 2xx response,
\* whatever its body is and whether or not it can be read, and the error of
\* make_request, with the status of the response, for a 4xx/5xx response.
C20_DeleteReturnsUnit ==
    (Answered /\ builder.v.kind \in DeleteStyle) =>
        /\ is_success(resp.v.status) => result.v = Ok(Unit)
        /\ ErrorStatus(resp.v.status) => result.v = Err(HttpErrorOf(resp.v))

C20_Witness ==
    /\ Answered /\ builder.v.kind = "DeleteIssueBuilder"
    /\ resp.v.status = NO_CONTENT /\ resp.v.body = EmptyBody
    /\ result.v = Ok(Unit)

\* what the send of a finished task does when it runs alone on the client
Alone(task) ==
    send(task.builder.v, client, IF IsSome(task.resp) THEN task.resp.v
                                 ELSE NoResponse("error sending request"))

Candidates(ty) ==
    CASE ty = "i64"    -> {JsonNumber(7), JsonString("7")}
      [] ty = "String" -> {JsonString(""), JsonString("x"), JsonNull}
      [] ty = "bool"   -> {JsonBool(TRUE), JsonNumber(1)}
      [] ty = "Option<String>" -> {JsonString("x"), JsonNull, JsonNumber(1)}
      [] ty = "Option<Vec<String>>" ->
           {JsonArray(<<>>), JsonArray(<<JsonString("all"), JsonString("repo")>>),
            JsonNull, JsonArray(<<JsonNumber(1)>>)}
      [] ty = "StateType"  -> {JsonString("open"), JsonString("closed"), JsonString("all")}
      [] ty = "Visibility" -> {JsonString("limited"), JsonString("Limited")}
      [] ty = "ObjectFormatName" -> {JsonString("sha256"), JsonNull}
      [] ty = "User" ->
           {JsonObject(<<>>), JsonObject([id |-> JsonNumber(7), login |-> JsonString("bob")]),
            JsonNull}
      [] ty = "ExternalWiki" ->
           {JsonObject([external_wiki_url |-> JsonString("x")]), JsonString("x")}

RECURSIVE Documents(_)
\* the JSON objects that hold, for each of these fields, no key or one of
\* the candidate values
Documents(fs) ==
    IF fs = <<>> THEN {<<>>}
    ELSE LET rest == Documents(Tail(fs))
         IN rest \cup {(Head(fs).wire :> j) @@ d : j \in Candidates(Head(fs).ty), d \in rest}

\* the fixtures of a model: these objects, with and without a key the model
\* does not declare
Fixtures(model) ==
    LET docs == Documents(ModelFields(model))
    IN {JsonObject(d) : d \in docs}
       \cup {JsonObject(("unknown_key" :> JsonNumber(1)) @@ d) : d \in docs}

RoundTripModels == Models \ {"ExternalWiki"}

Trip(stage, model, fixture, first, written, second) ==
    [stage |-> stage, model |-> model, fixture |-> fixture, first |-> first,
     written |-> written, second |-> second]

RoundTripInit ==
    /\ client \in TokenClients
    /\ pc = "idle"
    /\ builder = None
    /\ req = None
    /\ resp = None
    /\ mr = None
    /\ result = None
    /\ executed = <<>>
    /\ tasks = <<>>
    /\ trip = None

\* let first = serde_json::from_str::<Model>(fixture)
ReadFixture(model, fixture) ==
    /\ trip = None
    /\ trip' = Some(Trip("read", model, fixture, deserialize(model, fixture), None, None))
    /\ UNCHANGED <<client, pc, builder, req, resp, mr, result, executed, tasks>>

\* let written = serde_json::to_string(&first)
WriteValue ==
    /\ trip # None
    /\ trip.v.stage = "read"
    /\ trip.v.first.ok
    /\ trip' = Some([trip.v EXCEPT !.stage = "written",
                                   !.written = Some(serialize(trip.v.model, trip.v.first.val))])
    /\ UNCHANGED <<client, pc, builder, req, resp, mr, result, executed, tasks>>

\* let second = serde_json::from_str::<Model>(&written)
ReadAgain ==
    /\ trip # None
    /\ trip.v.stage = "written"
    /\ trip' = Some([trip.v EXCEPT !.stage = "read again",
                                   !.second = Some(deserialize(trip.v.model, trip.v.written.v))])
    /\ UNCHANGED <<client, pc, builder, req, resp, mr, result, executed, tasks>>

\* the test ends: after the second reading, or when the fixture is not a
\* value of the model
EndTrip ==
    /\ trip # None
    /\ trip.v.stage = "read again" \/ (trip.v.stage = "read" /\ ~trip.v.first.ok)
    /\ trip' = None
    /\ UNCHANGED <<client, pc, builder, req, resp, mr, result, executed, tasks>>

RoundTripNext ==
    \/ \E model \in RoundTripModels : \E fixture \in Fixtures(model) :
          ReadFixture(model, fixture)
    \/ WriteValue
    \/ ReadAgain
    \/ EndTrip

RoundTripSpec == RoundTripInit /\ [][RoundTripNext]_vars

ReadTwice == trip # None /\ trip.v.stage = "read again"

\* C21: for every response model, a fixture read into the model, written
\* and read again yields the value of the first reading
C21_RoundTripIdentical ==
    ReadTwice => trip.v.second.v = trip.v.first

\* a fixture without the key "id", with a key the model does not declare
\* and with a state, read twice into an Issue
C21_Witness ==
    /\ ReadTwice
    /\ trip.v.model = "Issue"
    /\ "id" \notin DOMAIN trip.v.fixture.doc
    /\ "unknown_key" \in DOMAIN trip.v.fixture.doc
    /\ "state" \in DOMAIN trip.v.fixture.doc
    /\ trip.v.second.v.ok
    /\ trip.v.second.v.val.f.state = "Closed"

(***************************************************************************)
(* The method #[derive(QueryParams)] generates, called on a request that   *)
(* may already carry query pairs.                                          *)
(***************************************************************************)
\* the builders that call their derived append_query_params
QueryParamsKinds == {"SearchIssuesBuilder", "ListAccessTokensBuilder"}

\* the query pairs a request carries before the call
ExistingPairs == {<<>>, << <<"token", <<"t">> >> >>, << <<"page", <<"1">> >>, <<"q", <<>> >> >>}

\* a method that writes the query anew instead of appending to it
replace_query_params(b, r) ==
    [r EXCEPT !.query = Some(append_query_params(Fields(b.kind), b))]

\* pub fn append_query_params(&self, req: &mut Request):
\* req.url_mut().query_pairs_mut() and the generated append_pair calls
derived_append_query_params(b, r) ==
    append_pairs(r, append_query_params(Fields(b.kind), b))

\* let mut req = client.get(..).build()?, with these pairs in its URL
BuildRequest(existing) ==
    /\ pc = "building"
    /\ pc' = "built"
    /\ req' = Some([get(client, <<"users">>).val EXCEPT
                       !.query = IF existing = <<>> THEN None ELSE Some(existing)])
    /\ UNCHANGED <<client, builder, resp, mr, result, executed, tasks, trip>>

\* self.append_query_params(&mut req)
AppendQueryParams ==
    /\ pc = "built"
    /\ pc' = "done"
    /\ req' = Some(derived_append_query_params(builder.v, req.v))
    /\ UNCHANGED <<client, builder, resp, mr, result, executed, tasks, trip>>

QueryParamsNext ==
    \/ \E kind \in QueryParamsKinds :
         \E args \in ArgChoices(RequiredNames(kind)) :
            New(kind, args)
    \/ /\ pc = "building"
       /\ \E i \in FieldIndex(builder.v.kind) :
            \E value \in Values(Fields(builder.v.kind)[i].ty) : Set(i, value)
    \/ \E existing \in ExistingPairs : BuildRequest(existing)
    \/ AppendQueryParams
    \/ Drop

QueryParamsSpec == Init /\ [][QueryParamsNext]_vars

\* the indices of the fields for which the derived method appends a pair
Appending(b) ==
    {i \in FieldIndex(b.kind) :
        ~Fields(b.kind)[i].qp_skip /\ Fields(b.kind)[i].opt /\ IsSome(b.f[Fields(b.kind)[i].name])}

\* the i-th smallest element of a set of numbers
RECURSIVE Nth(_, _)
Nth(set, i) ==
    LET least == CHOOSE x \in set : \A y \in set : x <= y
    IN IF i = 1 THEN least ELSE Nth(set \ {least}, i - 1)

\* C22: the derived append_query_params leaves the pairs already on the
\* request in place and appends after them, in declaration order, exactly
\* one pair per present field that is not skipped: its key is the rename if
\* one is declared and the field's name otherwise, its value the field's
\* to_string(); absent and skipped fields add nothing
C22_DerivedAppendsInOrder ==
    [][(pc = "built" /\ pc' = "done") =>
         LET before == QueryPairs(req.v)
             after == QueryPairs(req'.v)
             b == builder.v
         IN /\ Len(after) = Len(before) + Cardinality(Appending(b))
            /\ SubSeq(after, 1, Len(before)) = before
            /\ \A k \in 1..Cardinality(Appending(b)) :
                  LET fd == Fields(b.kind)[Nth(Appending(b), k)]
                  IN after[Len(before) + k] =
                        <<(IF fd.name = "query" THEN "q"
                           ELSE IF fd.name = "issue_type" THEN "type" ELSE fd.name),
                          to_string(fd.ty, b.f[fd.name].v)>>]_vars

\* a search with a state, labels and a query, appended to a request that
\* already carries two pairs
C22_Witness ==
    /\ pc = "done"
    /\ builder.v.kind = "SearchIssuesBuilder"
    /\ IsSome(builder.v.f.labels)
    /\ QueryPairs(req.v) = << <<"page", <<"1">> >>, <<"q", <<>> >>,
                              <<"q", <<"x">> >> >>

(***************************************************************************)
(* The empty String                                                        *)
(***************************************************************************)
\* the optional String fields of the builder that are set to ""
SetToEmpty(b) ==
    {n \in OptionalNames(b.kind) :
        FieldOf(b.kind, n).ty = "String" /\ IsSome(b.f[n]) /\ b.f[n].v = ""}

\* the request send renders for this builder
Rendered(b) == send(b, client, NoResponse("error sending request")).req

\* C23: an optional String field set to "" is rendered as a present, empty
\* value (a key with the value "" in a JSON body, a pair with an empty
\* value in a query), so the request differs from the one rendered with
\* the field unset
C23_EmptyStringIsPresent ==
    (Done /\ IsSome(req)) =>
        \A n \in SetToEmpty(builder.v) :
           /\ Rendered([builder.v EXCEPT !.f[n] = None]) # req
           /\ LET key == DocumentedKey(n)
              IN \/ \E i \in 1..Len(BodyPairs(req.v)) :
                       BodyPairs(req.v)[i] = <<key, JVal("String", "")>>
                 \/ \E i \in 1..Len(QueryPairs(req.v)) :
                       QueryPairs(req.v)[i] = <<key, <<>> >>

\* an EditRepoBuilder with description set to "" and name unset was sent
C23_Witness ==
    /\ Done /\ IsSome(req)
    /\ builder.v.kind = "EditRepoBuilder"
    /\ "description" \in SetToEmpty(builder.v)
    /\ "name" \in UnsetNames(builder.v)

\* a ListIssuesBuilder with query set to "" was sent
EmptyQuerySent ==
    /\ Done /\ IsSome(req)
    /\ builder.v.kind = "ListIssuesBuilder"
    /\ "query" \in SetToEmpty(builder.v)

(***************************************************************************)
(* The legacy methods of Client (lib.rs, issue.rs, repo.rs): the caller    *)
(* fills an option struct and passes it with the identifying parameters.   *)
(* A call is held like a builder: the arguments and the option's fields.   *)
(***************************************************************************)
\* repo.rs: struct GetCommitsOption
GetCommitsOption ==
    <<Optional("sha", "String"), Optional("path", "String"),
      Required("stat", "bool"), Required("verification", "bool"),
      Required("files", "bool"), Optional("page", "i64"), Optional("limit", "i64"),
      Optional("not", "String")>>

\* issue.rs: struct GetIssuesOption
GetIssuesOption ==
    <<Optional("state", "State"), Optional("labels", "Vec<String>"),
      [Optional("query", "String") EXCEPT !.wire = "q"],
      [Optional("issue_type", "IssueType") EXCEPT !.wire = "type"],
      Optional("milestone", "String"), Optional("since", "String"),
      Optional("before", "String"), Optional("created_by", "String"),
      Optional("assigned_by", "String"), Optional("mentioned_by", "String"),
      Optional("page", "i64"), Optional("limit", "i64")>>

\* repo.rs: struct SearchRepositoriesOption; the six fields modelled are
\* those of SearchRepositoriesBuilder
SearchRepositoriesOption ==
    <<Optional("q", "String"), Optional("topic", "bool"),
      [Optional("starred_by", "i64") EXCEPT !.wire = "starredBy"],
      Optional("mode", "String"), Optional("page", "i32"), Optional("limit", "i32")>>

LegacyMethods == {"get_commits", "get_issues", "search_repositories", "delete_repository"}

\* the parameters of a legacy method followed by the fields of its option
LegacyFields(method) ==
    LET owner_repo == <<Ident("owner", "String"), Ident("repo", "String")>>
    IN CASE method = "get_commits"         -> owner_repo \o GetCommitsOption
         [] method = "get_issues"          -> owner_repo \o GetIssuesOption
         [] method = "search_repositories" -> SearchRepositoriesOption
         [] method = "delete_repository"   -> owner_repo

LegacyFieldOf(method, name) ==
    LegacyFields(method)[CHOOSE i \in 1..Len(LegacyFields(method)) :
                            LegacyFields(method)[i].name = name]

\* the arguments, and the option struct as Default::default() makes it:
\* #[derive(Default)] gives None for an Option and false for a bool
\* (#[serde(default = "default_true")] acts on deserialization only)
Option_default(method, args) ==
    [kind |-> method,
     f |-> [n \in {LegacyFields(method)[i].name : i \in 1..Len(LegacyFields(method))} |->
              IF n \in DOMAIN args THEN args[n]
              ELSE IF LegacyFieldOf(method, n).opt THEN None
                   ELSE default(LegacyFieldOf(method, n).ty)]]

\* option.name = Some(value), or option.name = value for a field that is
\* not an Option
assign(b, fd, value) ==
    [b EXCEPT !.f[fd.name] = IF fd.opt THEN Some(value) ELSE value]

\* Client::get_commits
Client_get_commits(b, c, net) ==
    LET rb == get(c, Concat(<<<<"repos", "/">>, to_string("String", b.f.owner), <<"/">>,
                              to_string("String", b.f.repo), <<"/", "commits">>>>))
        params == Concat(<<
            append_if_some(b, "sha", "sha", "String"),
            append_if_some(b, "path", "path", "String"),
            << <<"stat", to_string("bool", b.f.stat)>> >>,
            << <<"verification", to_string("bool", b.f.verification)>> >>,
            << <<"files", to_string("bool", b.f.files)>> >>,
            append_if_some(b, "page", "page", "i64"),
            append_if_some(b, "limit", "limit", "i64"),
            append_if_some(b, "not", "not", "String")>>)
    IN send_and_parse(c,
          (IF rb.ok THEN Ok(append_pairs(rb.val, params)) ELSE rb),
          Type("vec", "Commit"), net)

\* Client::get_issues sending the search string under the field's name
Client_get_issues_field_names(b, c, net) ==
    LET rb == get(c, Concat(<<<<"repos", "/">>, to_string("String", b.f.owner), <<"/">>,
                              to_string("String", b.f.repo), <<"/", "issues">>>>))
        params == Concat(<<
            append_if_some(b, "state", "state", "State"),
            append_if_some(b, "labels", "labels", "Vec<String>"),
            append_if_some(b, "query", "query", "String"),
            append_if_some(b, "issue_type", "issue_type", "IssueType"),
            append_if_some(b, "page", "page", "i64"),
            append_if_some(b, "limit", "limit", "i64")>>)
    IN send_and_parse(c,
          (IF rb.ok THEN Ok(append_pairs(rb.val, params)) ELSE rb),
          Type("vec", "issue::Issue"), net)

\* Client::get_issues
Client_get_issues(b, c, net) ==
    LET rb == get(c, Concat(<<<<"repos", "/">>, to_string("String", b.f.owner), <<"/">>,
                              to_string("String", b.f.repo), <<"/", "issues">>>>))
        params == Concat(<<
            append_if_some(b, "state", "state", "State"),
            append_if_some(b, "labels", "labels", "Vec<String>"),
            append_if_some(b, "query", "q", "String"),
            append_if_some(b, "issue_type", "type", "IssueType"),
            append_if_some(b, "milestone", "milestone", "String"),
            append_if_some(b, "since", "since", "String"),
            append_if_some(b, "before", "before", "String"),
            append_if_some(b, "created_by", "created_by", "String"),
            append_if_some(b, "assigned_by", "assigned_by", "String"),
            append_if_some(b, "mentioned_by", "mentioned_by", "String"),
            append_if_some(b, "page", "page", "i64"),
            append_if_some(b, "limit", "limit", "i64")>>)
    IN send_and_parse(c,
          (IF rb.ok THEN Ok(append_pairs(rb.val, params)) ELSE rb),
          Type("vec", "issue::Issue"), net)

\* Client::search_repositories
Client_search_repositories(b, c, net) ==
    LET rb == get(c, <<"repos", "/", "search">>)
        params == Concat(<<
            append_if_some(b, "q", "q", "String"),
            append_if_some(b, "topic", "topic", "bool"),
            append_if_some(b, "starred_by", "starredBy", "i64"),
            append_if_some(b, "mode", "mode", "String"),
            append_if_some(b, "page", "page", "i32"),
            append_if_some(b, "limit", "limit", "i32")>>)
    IN send_and_unwrap(c,
          (IF rb.ok THEN Ok(append_pairs(rb.val, params)) ELSE rb),
          Type("envelope", "repo::Repository"), net)

\* Client::delete_repository
Client_delete_repository(b, c, net) ==
    send_and_discard(c,
        delete(c, Concat(<<<<"repos", "/">>, to_string("String", b.f.owner), <<"/">>,
                           to_string("String", b.f.repo)>>)),
        net)

\* client.method(args, &option).await
call(b, c, net) ==
    CASE b.kind = "get_commits"         -> Client_get_commits(b, c, net)
      [] b.kind = "get_issues"          -> Client_get_issues(b, c, net)
      [] b.kind = "search_repositories" -> Client_search_repositories(b, c, net)
      [] b.kind = "delete_repository"   -> Client_delete_repository(b, c, net)

\* the JSON texts of a user, of issues and of repositories
UserJson == JsonObject([id |-> JsonNumber(7), login |-> JsonString("bob")])
IssueJson(state) ==
    JsonObject([id |-> JsonNumber(5), state |-> JsonString(state), user |-> UserJson])
RepositoryJson == JsonObject([id |-> JsonNumber(9), owner |-> UserJson])
RepositoryWithWikiJson(wiki) ==
    JsonObject([id |-> JsonNumber(9), owner |-> UserJson, external_wiki |-> wiki])
WikiJson == JsonObject([external_wiki_url |-> JsonString("x")])

\* what a server answers to a legacy call or to the builder that supersedes it
LegacyBodies(method) ==
    CASE method = "get_commits" -> {EmptyBody, Body("array", "Commit")}
      [] method = "get_issues" ->
           {EmptyBody, Garbage, JsonText(JsonArray(<<>>)),
            JsonText(JsonArray(<<IssueJson("open"), IssueJson("closed")>>)),
            JsonText(JsonArray(<<IssueJson("open"), IssueJson("all")>>)),
            JsonText(JsonArray(<<IssueJson("reopened")>>)),
            JsonText(JsonArray(<<JsonObject([id |-> JsonNumber(5), user |-> UserJson])>>)),
            JsonText(IssueJson("open"))}
      [] method = "search_repositories" ->
           {Garbage,
            JsonText(JsonObject([ok |-> JsonBool(TRUE), data |-> JsonArray(<<RepositoryJson>>)])),
            JsonText(JsonObject([ok |-> JsonBool(FALSE), data |-> JsonArray(<<>>)])),
            JsonText(JsonObject([data |-> JsonArray(<<RepositoryJson>>)])),
            JsonText(JsonObject([ok |-> JsonBool(TRUE),
                                 data |-> JsonArray(<<RepositoryWithWikiJson(WikiJson)>>)])),
            JsonText(JsonObject([ok |-> JsonBool(TRUE),
                                 data |-> JsonArray(<<RepositoryWithWikiJson(JsonNull)>>)]))}
      [] method = "delete_repository" -> {EmptyBody, Garbage}

LegacyNetOutcomes(method) ==
    {Response(s, body, TRUE, FALSE) : s \in {200, NOT_FOUND, 500}, body \in LegacyBodies(method)}
    \cup {Response(200, EmptyBody, FALSE, d) : d \in BOOLEAN}
    \cup {NoResponse("error sending request")}

\* let mut option = XOption::default(), with the arguments of the call
MakeOption(method, args) ==
    /\ pc = "idle"
    /\ pc' = "building"
    /\ builder' = Some(Option_default(method, args))
    /\ UNCHANGED <<client, req, resp, mr, result, executed, tasks, trip>>

\* option.name = ..
Assign(i, value) ==
    /\ pc = "building"
    /\ ~LegacyFields(builder.v.kind)[i].serde_skip
    /\ IF ~LegacyFields(builder.v.kind)[i].opt THEN TRUE
       ELSE \/ IsSome(builder.v.f[LegacyFields(builder.v.kind)[i].name])
            \/ Cardinality({n \in DOMAIN builder.v.f :
                               LegacyFieldOf(builder.v.kind, n).opt /\ IsSome(builder.v.f[n])})
                  < MaxSet
    /\ builder' = Some(assign(builder.v, LegacyFields(builder.v.kind)[i], value))
    /\ UNCHANGED <<client, pc, req, resp, mr, result, executed, tasks, trip>>

\* client.method(owner, repo, &option).await, the network answering net
Call(net) ==
    /\ pc = "building"
    /\ \E out \in {call(builder.v, client, net)} :
          /\ req' = out.req
          /\ mr' = out.mr
          /\ result' = Some(out.result)
          /\ resp' = IF IsSome(out.mr) THEN Some(net) ELSE None
          /\ executed' = executed_by(client, out)
          /\ client' = IF IsSome(out.mr) THEN client_after(client, out.req.v) ELSE client
    /\ pc' = "done"
    /\ UNCHANGED <<builder, tasks, trip>>

LegacyNext ==
    \/ \E method \in LegacyMethods :
         \E args \in ArgChoices({"owner", "repo"} \cap
                                 {LegacyFields(method)[i].name : i \in 1..Len(LegacyFields(method))}) :
            MakeOption(method, args)
    \/ /\ pc = "building"
       /\ \E i \in 1..Len(LegacyFields(builder.v.kind)) :
            \E value \in Values(LegacyFields(builder.v.kind)[i].ty) : Assign(i, value)
    \/ /\ pc = "building"
       /\ \E net \in LegacyNetOutcomes(builder.v.kind) : Call(net)
    \/ Drop

LegacySpec == Init /\ [][LegacyNext]_vars

\* the call was made with the option as Default::default() returned it
DefaultOption ==
    builder.v = Option_default(builder.v.kind, [n \in {"owner", "repo"} |-> builder.v.f[n]])

\* C24 as stated: get_commits called with GetCommitsOption::default() sends
\* stat=true, verification=true and files=true
C24_DefaultsToTrue ==
    (Done /\ IsSome(req) /\ builder.v.kind = "get_commits" /\ DefaultOption) =>
        \A key \in {"stat", "verification", "files"} :
           /\ Cardinality(PairsWithKey(req.v, key)) = 1
           /\ \A i \in PairsWithKey(req.v, key) : QueryPairs(req.v)[i][2] = <<"true">>

(***************************************************************************)
(* Where an HttpError comes from                                           *)
(***************************************************************************)
HttpErrorReturned == Done /\ ~result.v.ok /\ result.v.err.kind = "HttpError"

\* a 4xx/5xx response was received
ErrorResponseReceived == IsSome(resp) /\ resp.v.delivered /\ ErrorStatus(resp.v.status)

PathParamKinds ==
    {"GetRepoBuilder", "DeleteRepoBuilder", "UpdateRepoAvatarBuilder",
     "UpdateOrgAvatarBuilder", "CreateIssueBuilder", "ListIssuesBuilder"}

\* the values a caller passes for owner and repo: plain names, and names
\* with a '/', a '?' or a '#' in them
PathArgs(name) ==
    CASE name = "owner" -> {"acme", "a", "a/b", "a?x=1"}
      [] name = "repo"  -> {"widgets", "c", "b/c", "r#x"}
      [] OTHER          -> Args(name)

RECURSIVE PathArgChoices(_)
PathArgChoices(names) ==
    IF names = {} THEN {<<>>}
    ELSE LET n == CHOOSE x \in names : TRUE
         IN {(n :> v) @@ a : v \in PathArgs(n), a \in PathArgChoices(names \ {n})}

PathNetOutcomes ==
    {Response(200, EmptyBody, TRUE, FALSE), Response(NOT_FOUND, Garbage, TRUE, FALSE),
     NoResponse("error sending request")}

PathParamNext ==
    \/ \E kind \in PathParamKinds :
         \E args \in PathArgChoices(RequiredNames(kind)) :
            New(kind, args)
    \/ /\ pc = "building"
       /\ \E i \in FieldIndex(builder.v.kind) :
            \E value \in Values(Fields(builder.v.kind)[i].ty) : Set(i, value)
    \/ /\ pc = "building"
       /\ \E net \in PathNetOutcomes : Send(net)
    \/ Drop

PathParamSpec == Init /\ [][PathParamNext]_vars

\* the index of the first token of a text that is this mark, 0 if there is none
FirstIndex(txt, mark) ==
    IF \E i \in 1..Len(txt) : txt[i] = mark
    THEN CHOOSE i \in 1..Len(txt) : txt[i] = mark /\ \A j \in 1..(i - 1) : txt[j] # mark
    ELSE 0

\* Url::parse, which reqwest applies to the text handed to request(): the
\* fragment starts at the first '#', the query at the first '?' before it
Url_parse(txt) ==
    LET hash == FirstIndex(txt, "#")
        front == IF hash = 0 THEN txt ELSE SubSeq(txt, 1, hash - 1)
        mark == FirstIndex(front, "?")
    IN [path |-> IF mark = 0 THEN front ELSE SubSeq(front, 1, mark - 1),
        query |-> IF mark = 0 THEN None ELSE Some(SubSeq(front, mark + 1, Len(front))),
        fragment |-> IF hash = 0 THEN None ELSE Some(SubSeq(txt, hash + 1, Len(txt)))]

IdentifyingNames == {"owner", "repo", "org", "username", "branch"}

\* C26 as stated: an identifying parameter is rendered into the URL path
\* only; it is a key neither of the JSON body nor of the query
C26_IdentifiersOnlyInPath ==
    Sent =>
        \A n \in IdentifyingNames \cap FieldNames(builder.v.kind) :
           /\ n \notin BodyKeys(req.v)
           /\ n \notin QueryKeys(req.v)

\* the (owner, repo) arguments other than those of the builder
OtherOwnerRepo(b) ==
    {a \in PathArgChoices(RequiredNames(b.kind)) :
        <<a["owner"], a["repo"]>> # <<b.f.owner, b.f.repo>>}

\* C27 as stated: whatever Strings owner and repo are, the query of the
\* request holds the pairs of the optional fields alone, and a builder
\* with another (owner, repo) renders another URL
C27_OwnerRepoAreOpaque ==
    (Sent /\ builder.v.kind \in {"GetRepoBuilder", "DeleteRepoBuilder", "ListIssuesBuilder"}) =>
        /\ Url_parse(req.v.url).query = None
        /\ Url_parse(req.v.url).fragment = None
        /\ \A a \in OtherOwnerRepo(builder.v) :
              Rendered(new(builder.v.kind, a)).v.url # req.v.url

(***************************************************************************)
(* The setters of a builder, called in any order                           *)
(***************************************************************************)
SetterKinds == {"EditIssueBuilder", "ListIssuesBuilder"}

SetterNext ==
    \/ \E kind \in SetterKinds :
         \E args \in ArgChoices(RequiredNames(kind)) :
            New(kind, args)
    \/ /\ pc = "building"
       /\ \E i \in FieldIndex(builder.v.kind) :
            \E value \in Values(Fields(builder.v.kind)[i].ty) : Set(i, value)
    \/ /\ pc = "building"
       /\ \E net \in PathNetOutcomes : Send(net)
    \/ Drop

SetterSpec == Init /\ [][SetterNext]_vars

\* the calls builder.name(value) a builder of this kind offers
SetterCalls(kind) ==
    UNION {{<<Fields(kind)[i].name, value>> : value \in Values(Fields(kind)[i].ty)} :
              i \in {j \in FieldIndex(kind) : Fields(kind)[j].opt}}

Superseded == {"get_issues", "search_repositories", "delete_repository"}

BuilderFor(method) ==
    CASE method = "get_issues"          -> "ListIssuesBuilder"
      [] method = "search_repositories" -> "SearchRepositoriesBuilder"
      [] method = "delete_repository"   -> "DeleteRepoBuilder"

\* the builder made with the arguments of a legacy call and with every
\* value of its option set
Superseding(b) == [kind |-> BuilderFor(b.kind), f |-> b.f]

\* what the superseding builder does with the client and the answer the
\* legacy call got
BuilderOutcome ==
    send(Superseding(builder.v), client,
         IF IsSome(resp) THEN resp.v ELSE NoResponse("error sending request"))

LegacyCalled == Done /\ builder.v.kind \in Superseded

\* the items of a returned Vec; () returns none
Items(v) == IF v.variant = "Unit" THEN <<>> ELSE v.doc.items

\* two values of structs of different modules are the same when they have
\* as many items and every field both structs declare has the same value
SameValues(x, y) ==
    /\ x.variant = y.variant
    /\ Len(Items(x)) = Len(Items(y))
    /\ \A i \in 1..Len(Items(x)) :
          \A n \in DOMAIN Items(x)[i].f \cap DOMAIN Items(y)[i].f :
             Items(x)[i].f[n] = Items(y)[i].f[n]

SameResult(x, y) ==
    /\ x.ok = y.ok
    /\ IF x.ok THEN SameValues(x.val, y.val) ELSE x.err = y.err

LegacyOnlyOk ==
    LegacyCalled /\ result.v.ok /\ ~BuilderOutcome.result.ok

====
